---- MODULE Spec2Model ----
(***************************************************************************)
(* Model of the quotes scraper: one run of QuotesScraperApp (main.py) with *)
(* the Authenticator (src/auth.py), the AsyncScraper crawl engine          *)
(* (src/scraper.py) and its two parser backends (src/parsers).            *)
(* Every network request, retry delay and browser operation is one step;  *)
(* the answer of the site to a request is chosen nondeterministically.    *)
(* UnitSpec calls the functions that depend on their arguments alone      *)
(* (token extraction, login-success test, the operations of both parser   *)
(* backends, the storage) once each, on every argument of a bounded set,  *)
(* and uses a SeleniumParser on its own, with or without a given browser. *)
(***************************************************************************)
EXTENDS Integers, Sequences, FiniteSets, TLC

\* ------------------------------------------------------------- bounds
MaxRetry == 2        \* largest retry_attempts value explored (auth and scraping)
MaxPages == 2        \* largest configured max_pages explored
MaxProbePage == 4    \* page numbers above this are not told apart by the model
MaxCloses == 2       \* calls of AsyncScraper.close() explored

\* ------------------------------------------------------------- data
None == "None"

\* parser_type values of the configuration: load_config strips before it
\* validates, the factory only lower-cases, so a padded name passes the
\* validation and is unknown to the factory.
ParserTypes == {"bs4", "selenium", " bs4 "}
PARSER_TYPES == {"bs4", "beautifulsoup", "selenium"}

Modes == {"full", "author"}

\* str.lower() on the strings used by the model (author names; the
\* parser types are lower-case already and stay as they are)
Names == {"Ann", "ann", "ANN", "Bob", "bob"}
Lower(s) ==
    CASE s \in {"Ann", "ann", "ANN"} -> "ann"
      [] s \in {"Bob", "bob"} -> "bob"
      [] OTHER -> s

\* An element of class "quote" of a page: its tag and the text of the
\* text and author elements it holds (None when the element is missing).
Element(e, t, a) == [elem |-> e, text |-> t, author |-> a]
\* A content block as the site writes it: a div of class "quote"
Block(t, a) == Element("div", t, a)

\* Page bodies the site can answer with: the quote blocks in document
\* order, whether a li.next element is present and whether the body holds
\* the literal "No quotes found!".
Page(bs, n, m) == [blocks |-> bs, next |-> n, marker |-> m]
Bodies ==
    { Page(<<Block(None, "Bob"), Block("q1", "Ann")>>, TRUE, FALSE),
      Page(<<Block("q2", "Bob"), Block("q3", "ann")>>, FALSE, FALSE),
      Page(<<>>, TRUE, FALSE),
      Page(<<>>, FALSE, TRUE) }

\* Ways a GET through the session can fail without a response
FetchErrors == {"timeout", "client_error", "error"}
\* Response statuses explored
Statuses == {200, 404, 500}

\* A page together with its pager: the tag of the element of class
\* "pager" (None if the page has none) and the number shown by the element
\* of class "current" inside it (0 if there is none or it shows no digit)
Pager(e, c) == [elem |-> e, current |-> c]
Document(bs, n, m, pg) ==
    [blocks |-> bs, next |-> n, marker |-> m, pager |-> pg]

\* ------------------------------------------------------------- parser
\* str.strip('"') on the texts used by the model
StripQuotes(s) ==
    CASE s = "\"q2\"" -> "q2"
      [] s = "\"q4" -> "q4"
      [] OTHER -> s

\* Results of an operation of a parser: the value it returned, or the
\* exception it let out
Returned(v) == [raised |-> FALSE, value |-> <<v>>]
Raised == [raised |-> TRUE, value |-> <<>>]

\* BS4Parser._parse_single_quote: nothing unless both elements are present
\* (the empty sequence stands for the None the code returns)
_parse_single_quote(b) ==
    IF b.text = None \/ b.author = None
    THEN <<>>
    ELSE <<[text |-> StripQuotes(b.text), author |-> b.author]>>

\* Variant: a block without text or author ends the loop
RECURSIVE ParseBlocks_UntilIncomplete(_)
ParseBlocks_UntilIncomplete(bs) ==
    IF bs = <<>> THEN <<>>
    ELSE IF _parse_single_quote(Head(bs)) = <<>> THEN <<>>
    ELSE _parse_single_quote(Head(bs)) \o ParseBlocks_UntilIncomplete(Tail(bs))

\* the loop of BS4Parser.parse_quotes_from_html over the blocks
RECURSIVE ParseBlocks(_)
ParseBlocks(bs) ==
    IF bs = <<>> THEN <<>>
    ELSE _parse_single_quote(Head(bs)) \o ParseBlocks(Tail(bs))

\* soup.find_all("div", class_="quote")
find_all_div_quote(html) == SelectSeq(html.blocks, LAMBDA b : b.elem = "div")

parse_quotes_from_html(html) == ParseBlocks(find_all_div_quote(html))
has_next_page(html) == html.next
has_no_quotes(html) == html.marker
\* BS4Parser.extract_page_number: the number in span.current of ul.pager,
\* 1 when there is none
extract_page_number(html) ==
    IF html.pager.elem = "ul" /\ html.pager.current # 0
    THEN html.pager.current
    ELSE 1

\* ------------------------------------------------------------- selenium
\* SeleniumParser._parse_single_quote: NoSuchElementException for a
\* missing element gives None
SeleniumParser_parse_single_quote(b) ==
    IF b.text = None \/ b.author = None
    THEN <<>>
    ELSE <<[text |-> StripQuotes(b.text), author |-> b.author]>>

\* the loop over driver.find_elements(By.CLASS_NAME, "quote")
RECURSIVE SeleniumParseBlocks(_)
SeleniumParseBlocks(bs) ==
    IF bs = <<>> THEN <<>>
    ELSE SeleniumParser_parse_single_quote(Head(bs))
             \o SeleniumParseBlocks(Tail(bs))

\* SeleniumParser.parse_quotes_from_html: _get_driver() is called outside
\* the try block, so a browser that cannot be created raises; no element
\* of class "quote" within the wait gives []
SeleniumParser_parse_quotes_from_html(html, browser) ==
    IF browser = "fails" THEN Raised
    ELSE Returned(IF html.blocks = <<>> THEN <<>>
                  ELSE SeleniumParseBlocks(html.blocks))

\* SeleniumParser.has_next_page: li.next in the loaded page
SeleniumParser_has_next_page(html, browser) ==
    IF browser = "fails" THEN Raised ELSE Returned(html.next)

\* SeleniumParser.extract_page_number: the number in the element of class
\* "current" inside the element of class "pager", 1 when there is none
SeleniumParser_extract_page_number(html, browser) ==
    IF browser = "fails" THEN Raised
    ELSE Returned(IF html.pager.elem # None /\ html.pager.current # 0
                  THEN html.pager.current
                  ELSE 1)

\* SeleniumParser.has_no_quotes: a search of the string, no browser
SeleniumParser_has_no_quotes(html) == Returned(html.marker)

\* ------------------------------------------------------------- login pages
\* What the three lookups of _extract_csrf_token find in a login page
LoginPage(i, a, s) == [input |-> i, attr |-> a, script |-> s, parses |-> TRUE]
\* A body on which the extraction raises
Unparsable(i, a, s) == [input |-> i, attr |-> a, script |-> s, parses |-> FALSE]
LoginPages ==
    { LoginPage(None, None, None),
      LoginPage("t1", None, None),
      LoginPage(None, "t2", None),
      LoginPage("t1", None, "t3") }

\* Variant: the inline script pattern is tried before the other two
_extract_csrf_token_ScriptFirst(html) ==
    IF ~html.parses THEN None
    ELSE IF html.script # None THEN html.script
    ELSE IF html.input # None THEN html.input
    ELSE IF html.attr # None THEN html.attr
    ELSE None

\* _extract_csrf_token: the value of the input named csrf_token, else the
\* match of the attribute pattern, else the match of the script/JSON
\* pattern, else None; an exception is caught and gives None
_extract_csrf_token(html) ==
    IF ~html.parses THEN None
    ELSE IF html.input # None THEN html.input
    ELSE IF html.attr # None THEN html.attr
    ELSE IF html.script # None THEN html.script
    ELSE None

\* What _check_authentication_success looks at in the body answering the
\* credential POST: the username, "logout"/"log out", "successfully logged
\* in", the "/login" marker, a length above MinBodyLen, "quote"/"quotes".
PostBody(u, l, s, p, n, q) ==
    [username |-> u, logout |-> l, phrase |-> s, login_path |-> p,
     len |-> n, vocab |-> q]
MinBodyLen == 5000
PostBodies ==
    { PostBody(TRUE, TRUE, FALSE, FALSE, 6000, TRUE),
      PostBody(FALSE, FALSE, FALSE, TRUE, 100, FALSE),
      PostBody(FALSE, FALSE, FALSE, TRUE, 100, TRUE),
      PostBody(FALSE, FALSE, FALSE, TRUE, 6000, TRUE),
      PostBody(FALSE, FALSE, FALSE, FALSE, 100, TRUE) }

_check_authentication_success(html) ==
    IF (~html.login_path \/ html.len > MinBodyLen) /\ html.vocab
    THEN TRUE
    ELSE html.username \/ html.logout \/ html.phrase

\* ------------------------------------------------------------- site answers
NoBody == Page(<<>>, FALSE, FALSE)

\* What a GET through the aiohttp session can end in: a response with a
\* status (and, for 200, a body), a 200 whose body cannot be read
\* (response.text() raises), or no response at all.
Response(k, st, b) == [kind |-> k, status |-> st, body |-> b]
StaticResponses ==
    {Response("response", 200, b) : b \in Bodies}
    \cup {Response("response", st, NoBody) : st \in Statuses \ {200}}
    \cup {Response("payload_error", 200, NoBody)}
    \cup {Response(e, 0, NoBody) : e \in FetchErrors}

\* What a browser operation can end in: the driver cannot be created
\* (only when none exists yet), driver.get raises, or the page is loaded;
\* the page the browser shows for a 404 answer holds no quote block, no
\* next link and no marker.
BrowserResults(drv) ==
    {Response("loaded", 200, b) : b \in Bodies}
    \cup {Response("loaded", 404, NoBody)}
    \cup {Response("nav_error", 0, NoBody)}
    \cup (IF drv = "none" THEN {Response("driver_error", 0, NoBody)} ELSE {})

\* How a response is entered in the histories
Outcome(r) ==
    IF r.kind \in {"response", "loaded"}
    THEN (IF r.status = 200
          THEN (IF has_no_quotes(r.body) THEN "200_marker" ELSE "200")
          ELSE IF r.status = 404 THEN "404" ELSE "status")
    ELSE r.kind

\* ------------------------------------------------------------- helpers
UpTo(n) == [i \in 1..n |-> i]            \* list(range(1, n + 1))

\* random.sample(range(1, n + 1), n): any ordering of 1..n
Samples(n) == {p \in [1..n -> 1..n] : \A i, j \in 1..n : p[i] = p[j] => i = j}

\* sorted(): insertion into an ascending list
RECURSIVE Insert(_, _)
Insert(x, srt) ==
    IF srt = <<>> THEN <<x>>
    ELSE IF x <= Head(srt) THEN <<x>> \o srt
    ELSE <<Head(srt)>> \o Insert(x, Tail(srt))
\* Variant: the sample is returned in the order it was drawn
sorted_AsDrawn(sq) == sq

RECURSIVE sorted(_)
sorted(sq) == IF sq = <<>> THEN <<>> ELSE Insert(Head(sq), sorted(Tail(sq)))

\* Variant: the names are compared as they are written
AuthorFilter_CaseSensitive(qs, name) ==
    SelectSeq(qs, LAMBDA q : q.author = name)

\* the author filter of scrape_author_quotes
AuthorFilter(qs, name) ==
    SelectSeq(qs, LAMBDA q : Lower(q.author) = Lower(name))

\* ------------------------------------------------------------- state
VARIABLES
    \* configuration, fixed for the run
    mode, author_name, parser_type, retry_attempts, auth_retry_attempts,
    max_pages, random_pages,
    \* the run
    pc,             \* position of the run
    exc,            \* exception propagating out of the run (None if none)
    cancelled,      \* the run's task was cancelled from outside
    site_check,     \* what the availability check ended in (None before)
    \* Authenticator
    session,        \* "none" | "open" | "closed"
    session_closes, \* calls of session.close()
    used_closed,    \* a request was sent through the session after its close
    session_used,   \* the engine has sent a request through the session
    attempt,        \* loop index of login / of _scrape_page_with_retry
    waiting,        \* the run is suspended in a request it has sent
    in_flight,      \* requests sent to the site and not yet ended
    url,            \* URL of the request the run waits for (None if none)
    csrf_token,
    login_result,   \* None | "True" | "False"
    login_gets, login_posts, login_delays, login_failures,
    login_log,      \* how each request of login() ended, in order
    login_response, \* <<>>, or <<status and verdict of the success check>>
                    \* of the POST answer on which login() returned True
    \* AsyncScraper
    parser,         \* None | "bs4" | "selenium": the parser the engine holds
    driver,         \* "none" | "alive": SeleniumParser.driver
    own_driver,     \* None | "True" | "False": SeleniumParser._own_driver
    drivers_created, drivers_quit,
    worker,         \* "idle" | "creating" | "navigating": the browser
                    \* operation a cancelled await left in its thread
    close_calls,    \* calls of AsyncScraper.close()
    page_num, pages, pages_to_scrape, idx,
    quotes, all_quotes, author_quotes,
    \* history of the current call / of the run
    probe_log,      \* outcomes of the probes of the current discovery
    probe_answered, \* some probe of the current discovery got a 200 or 404
    probes_beyond,  \* probes of pages above MaxProbePage, modulo 2
    fetch_status,   \* outcome of the latest GET of the current page fetch
    fetch_html,     \* <<body>> of the response when that GET gave a page,
                    \* <<>> otherwise
    fetch_gets, fetch_failures, fetch_delays,
    visited, per_page,
    all_failed,     \* every page call of the planned crawl so far ended in
                    \* a failure
    iterations,     \* iterations of the author loop that sent their probe
    terminal_page,  \* first page of the author loop whose probe was answered
                    \* with the terminal marker or a 404 (0 if none)
    terminal_how,   \* "200_marker" | "404": that answer (None if none)
    cancel_at,      \* position at which the run was cancelled (None if not)
    page_gets,      \* requests scrape_author_quotes has sent for page_num
    probed, fetched, next_checked, saved,
    \* the login attempt in progress
    page_token,     \* token extracted from the login page this attempt's
                    \* GET returned (None if no page or no token)
    post_token,     \* csrf_token field of the credential POST this attempt
                    \* has sent (None if it has sent none)
    \* a single call of a function of the program on a given input
    unit_fn,        \* the function called (None during a run)
    unit_arg,       \* its arguments
    unit_out        \* <<>> before the call, <<result>> after it

cfgvars == <<mode, author_name, parser_type, retry_attempts,
             auth_retry_attempts, max_pages, random_pages>>
runvars == <<pc, exc, cancelled, site_check>>
netvars == <<waiting, in_flight, url>>
authvars == <<session, session_closes, used_closed, session_used, csrf_token, login_result,
              login_gets, login_posts, login_delays, login_failures,
              login_log, login_response>>
parservars == <<parser, driver, own_driver, drivers_created, drivers_quit>>
threadvars == <<worker, close_calls>>
crawlvars == <<page_num, pages, pages_to_scrape, idx, quotes, all_quotes,
               author_quotes>>
histvars == <<probe_log, probe_answered, probes_beyond, fetch_status, fetch_html, fetch_gets, fetch_failures,
              fetch_delays, visited, per_page, probed, fetched, next_checked,
              saved>>
ghostvars == <<all_failed, iterations, terminal_page, terminal_how,
               cancel_at, page_gets>>
tokvars == <<page_token, post_token>>
unitvars == <<unit_fn, unit_arg, unit_out>>
progvars == <<cfgvars, runvars, authvars, attempt, netvars, parservars,
              threadvars, crawlvars, histvars, ghostvars, tokvars>>
vars == <<progvars, unitvars>>

\* The state of the program when main.py starts a run
Start ==
    /\ mode \in Modes
    /\ author_name \in (IF mode = "author" THEN {"ANN", "bob"} ELSE {None})
    /\ parser_type \in ParserTypes
    /\ retry_attempts \in 1..MaxRetry
    /\ auth_retry_attempts \in 1..MaxRetry
    /\ max_pages \in 0..MaxPages          \* 0 stands for null (not configured)
    /\ random_pages \in (IF mode = "full" THEN BOOLEAN ELSE {TRUE})
    /\ pc = "check_site"
    /\ exc = None
    /\ cancelled = FALSE
    /\ site_check = None
    /\ session = "none"
    /\ session_closes = 0
    /\ used_closed = FALSE
    /\ session_used = FALSE
    /\ attempt = 0
    /\ waiting = FALSE
    /\ in_flight = 0
    /\ url = None
    /\ csrf_token = None
    /\ login_result = None
    /\ login_gets = 0 /\ login_posts = 0 /\ login_delays = 0
    /\ login_failures = 0
    /\ login_log = <<>>
    /\ login_response = <<>>
    /\ parser = None
    /\ own_driver = None
    /\ driver = "none"
    /\ drivers_created = 0 /\ drivers_quit = 0
    /\ worker = "idle"
    /\ close_calls = 0
    /\ page_num = 0
    /\ pages = <<>>
    /\ pages_to_scrape = <<>>
    /\ idx = 0
    /\ quotes = <<>>
    /\ all_quotes = <<>>
    /\ author_quotes = <<>>
    /\ probe_log = <<>>
    /\ probe_answered = FALSE
    /\ probes_beyond = 0
    /\ fetch_status = None
    /\ fetch_html = <<>>
    /\ fetch_gets = 0 /\ fetch_failures = 0 /\ fetch_delays = 0
    /\ visited = <<>>
    /\ per_page = <<>>
    /\ all_failed = TRUE
    /\ iterations = 0
    /\ terminal_page = 0
    /\ terminal_how = None
    /\ cancel_at = None
    /\ page_gets = 0
    /\ probed = FALSE /\ fetched = FALSE /\ next_checked = FALSE
    /\ saved = FALSE
    /\ page_token = None /\ post_token = None

Init ==
    /\ Start
    /\ unit_fn = None /\ unit_arg = <<>> /\ unit_out = <<>>

\* ------------------------------------------------------------- requests
\* The positions at which the run sends a request to the site: the
\* availability check, the GET and POST of login(), and the probe, page
\* fetch and next-page check of the engine
RequestPositions == {"check_site", "login_get", "login_post", "discover",
                     "fetch", "author_loop", "author_next"}

\* config['scraping']['base_url'] and config['auth']['login_url']
base_url == "http://quotes.toscrape.com"
login_url == "http://quotes.toscrape.com/login"

\* The URL _has_no_quotes builds for its probe of a page
_has_no_quotes_url(page) ==
    IF page > 1 THEN base_url \o "/page/" \o ToString(page) \o "/"
    ELSE base_url \o "/"

\* The URL _scrape_page_with_retry builds for its fetch of a page
_scrape_page_with_retry_url(page) ==
    IF page > 1 THEN base_url \o "/page/" \o ToString(page) \o "/"
    ELSE base_url \o "/"

\* Variant: the first page is addressed as /page/1/ as well
_has_next_page_url_PagedFromOne(current_page) ==
    IF current_page >= 1
    THEN base_url \o "/page/" \o ToString(current_page) \o "/"
    ELSE base_url \o "/"

\* The URL _has_next_page builds for its check of a page
_has_next_page_url(current_page) ==
    IF current_page > 1
    THEN base_url \o "/page/" \o ToString(current_page) \o "/"
    ELSE base_url \o "/"

\* The URL of the request sent at the current position
RequestUrl ==
    CASE pc = "check_site" -> base_url
      [] pc \in {"login_get", "login_post"} -> login_url
      [] pc \in {"discover", "author_loop"} -> _has_no_quotes_url(page_num)
      [] pc = "fetch" -> _scrape_page_with_retry_url(page_num)
      [] pc = "author_next" -> _has_next_page_url(page_num)

\* Variant: the ceiling check is off by one
CeilingReached_OffByOne == max_pages # 0 /\ page_num > max_pages + 1

\* "if self.max_pages and page_num > self.max_pages: break"
CeilingReached == max_pages # 0 /\ page_num > max_pages

\* The author loop sends its probe only when the ceiling check let it
\* pass (and the page number is one the model tells apart)
ProbeAllowed ==
    pc = "author_loop" => (~CeilingReached /\ page_num <= MaxProbePage)

\* The positions at which scrape_author_quotes sends a request for
\* page_num: the probe, the attempts of the page's call, the next-page check
AuthorRequests ==
    IF mode = "author" THEN {"author_loop", "fetch", "author_next"} ELSE {}

\* Variant: the request is started without being awaited
SendRequest_NoAwait ==
    /\ pc \in RequestPositions
    /\ ~waiting
    /\ ProbeAllowed
    /\ in_flight' = in_flight + 1
    /\ url' = url
    /\ post_token' = (IF pc = "login_post" THEN csrf_token ELSE post_token)
    /\ page_gets' = (IF pc \in AuthorRequests THEN page_gets + 1
                     ELSE page_gets)
    /\ UNCHANGED <<cfgvars, unitvars, page_token, runvars, authvars, attempt,
                   waiting, parservars, threadvars, crawlvars, histvars,
                   all_failed, iterations, terminal_page, terminal_how,
                   cancel_at>>

\* "async with session.get(...)", "await asyncio.to_thread(...)": the
\* request is sent and the run is suspended until it has ended
SendRequest ==
    /\ pc \in RequestPositions
    /\ ~waiting
    /\ ProbeAllowed
    /\ waiting' = TRUE
    /\ in_flight' = in_flight + 1
    /\ url' = RequestUrl
    \* login_data carries the token the attempt holds (auth.py 61-65)
    /\ post_token' = (IF pc = "login_post" THEN csrf_token ELSE post_token)
    /\ page_gets' = (IF pc \in AuthorRequests THEN page_gets + 1
                     ELSE page_gets)
    /\ UNCHANGED <<cfgvars, unitvars, page_token, runvars, authvars, attempt,
                   parservars, threadvars, crawlvars, histvars,
                   all_failed, iterations, terminal_page, terminal_how,
                   cancel_at>>

\* The awaited request has ended (answer, error or timeout) and the run
\* is resumed
Receive ==
    /\ waiting
    /\ waiting' = FALSE
    /\ in_flight' = in_flight - 1
    /\ url' = None

\* ------------------------------------------------------------- main.py
\* What the GET of the availability check can end in
SiteAnswers ==
    {Response("response", st, NoBody) : st \in Statuses}
    \cup {Response(e, 0, NoBody) : e \in FetchErrors}
\* Variant: any response counts as the site being there
SiteAvailable_AnyResponse(r) == r.kind = "response"
\* "return response.status == 200"; every exception gives False
SiteAvailable(r) == r.kind = "response" /\ r.status = 200

\* _check_site_availability: a GET of base_url on a session of its own
_check_site_availability ==
    /\ pc = "check_site"
    /\ Receive
    /\ \E r \in SiteAnswers :
         /\ site_check' = Outcome(r)
         /\ pc' = IF SiteAvailable(r) THEN "enter" ELSE "done"
    /\ UNCHANGED <<cfgvars, unitvars, tokvars, exc, cancelled, authvars, attempt, parservars,
                   threadvars, crawlvars, histvars, ghostvars>>

\* Authenticator.__aenter__: the session is created
__aenter__ ==
    /\ pc = "enter"
    /\ session' = "open"
    /\ pc' = "login_get"
    /\ attempt' = 0
    /\ UNCHANGED <<cfgvars, unitvars, tokvars, exc, cancelled, site_check, session_closes, used_closed, session_used,
                   csrf_token, login_result, login_gets, login_posts,
                   login_delays, login_failures, login_log, login_response, parservars,
                   netvars, threadvars, crawlvars, histvars, ghostvars>>

\* ------------------------------------------------------------- auth.py
\* Variant: a failed GET or a missing token does not end the attempt, the
\* credential POST is sent all the same
LoginAttemptFailed_PostsAnyway(how) ==
    /\ login_failures' = login_failures + 1
    /\ login_log' = Append(login_log, how)
    /\ page_token' = None /\ post_token' = None
    /\ IF how \in {"get_status", "no_token"}
       THEN /\ pc' = "login_post" /\ login_result' = login_result
            /\ csrf_token' = (IF how = "no_token" THEN None ELSE csrf_token)
       ELSE IF attempt < auth_retry_attempts - 1
       THEN /\ pc' = "login_sleep" /\ login_result' = login_result
            /\ csrf_token' = csrf_token
       ELSE /\ pc' = "login_done" /\ login_result' = "False"
            /\ csrf_token' = None

\* Variant: the failure is not caught and leaves login() as an exception
LoginAttemptFailed_Raises(how) ==
    /\ login_failures' = login_failures + 1
    /\ login_log' = Append(login_log, how)
    /\ csrf_token' = None
    /\ page_token' = None /\ post_token' = None
    /\ pc' = "aexit" /\ login_result' = login_result

\* Variant: a failed attempt returns False at once, without a retry
LoginAttemptFailed_NoRetry(how) ==
    /\ login_failures' = login_failures + 1
    /\ login_log' = Append(login_log, how)
    /\ csrf_token' = None
    /\ page_token' = None /\ post_token' = None
    /\ pc' = "login_done" /\ login_result' = "False"

\* Variant: the attempt bound is off by one, one attempt too many
LoginAttemptFailed_ExtraAttempt(how) ==
    /\ login_failures' = login_failures + 1
    /\ login_log' = Append(login_log, how)
    /\ page_token' = None /\ post_token' = None
    /\ IF attempt < auth_retry_attempts
       THEN /\ pc' = "login_sleep" /\ login_result' = login_result
            /\ csrf_token' = (IF how = "no_token" THEN None ELSE csrf_token)
       ELSE /\ pc' = "login_done" /\ login_result' = "False"
            /\ csrf_token' = None

\* The tail shared by every failing branch of login(): sleep and continue
\* while attempts remain, return False otherwise.  The attempt is over;
\* the local csrf_token keeps its value for the next attempt unless the
\* extraction of this attempt assigned None to it, and is gone with the
\* frame when login() returns.
LoginAttemptFailed(how) ==
    /\ login_failures' = login_failures + 1
    /\ login_log' = Append(login_log, how)
    /\ page_token' = None /\ post_token' = None
    /\ IF attempt < auth_retry_attempts - 1
       THEN /\ pc' = "login_sleep" /\ login_result' = login_result
            /\ csrf_token' = (IF how = "no_token" THEN None ELSE csrf_token)
       ELSE /\ pc' = "login_done" /\ login_result' = "False"
            /\ csrf_token' = None

\* One GET of the login page and what login() does with the answer
LoginGet ==
    /\ pc = "login_get"
    /\ Receive
    /\ login_gets' = login_gets + 1
    /\ used_closed' = (used_closed \/ session = "closed")
    /\ \/ \E e \in {"timeout", "error"} : LoginAttemptFailed(e)
       \/ LoginAttemptFailed("get_status")
       \/ \E html \in LoginPages :
            IF _extract_csrf_token(html) = None
            THEN LoginAttemptFailed("no_token")
            ELSE /\ csrf_token' = _extract_csrf_token(html)
                 /\ page_token' = _extract_csrf_token(html)
                 /\ login_log' = Append(login_log, "token")
                 /\ pc' = "login_post"
                 /\ UNCHANGED <<login_result, login_failures, post_token>>
    /\ UNCHANGED <<cfgvars, unitvars, exc, cancelled, site_check, session, session_closes, attempt,
                   login_posts, login_delays, login_response, session_used, parservars, threadvars,
                   crawlvars, histvars, ghostvars>>

\* Statuses the credential POST is answered with
PostStatuses == {200, 302, 500}
\* Variant: the status of the POST answer is not looked at
PostStatusOk_Any(st) == TRUE
\* "login_response.status not in [200, 302]" fails the attempt
PostStatusOk(st) == st \in {200, 302}

\* The credential POST and what login() does with the answer
LoginPost ==
    /\ pc = "login_post"
    /\ Receive
    /\ login_posts' = login_posts + 1
    /\ used_closed' = (used_closed \/ session = "closed")
    /\ \/ \E e \in {"timeout", "error"} :
            LoginAttemptFailed(e) /\ login_response' = <<>>
       \/ \E st \in PostStatuses, login_html \in PostBodies :
            IF ~PostStatusOk(st)
            THEN LoginAttemptFailed("post_status") /\ login_response' = <<>>
            ELSE IF _check_authentication_success(login_html)
            THEN /\ pc' = "login_done"
                 /\ login_result' = "True"
                 /\ login_log' = Append(login_log, "success")
                 /\ login_response' =
                        <<[status |-> st,
                           passed |-> _check_authentication_success(login_html)]>>
                 /\ csrf_token' = None
                 /\ page_token' = None /\ post_token' = None
                 /\ UNCHANGED login_failures
            ELSE LoginAttemptFailed("check_failed") /\ login_response' = <<>>
    /\ UNCHANGED <<cfgvars, unitvars, exc, cancelled, site_check, session, session_closes, attempt,
                   login_gets, login_delays, session_used, parservars, threadvars,
                   crawlvars, histvars, ghostvars>>

\* asyncio.sleep(retry_delay) and the continue that follows it
LoginSleep ==
    /\ pc = "login_sleep"
    /\ login_delays' = login_delays + 1
    /\ attempt' = attempt + 1
    /\ pc' = "login_get"
    /\ UNCHANGED <<cfgvars, unitvars, tokvars, exc, cancelled, site_check, session, session_closes,
                   used_closed, session_used, csrf_token, login_result, login_gets,
                   login_posts, login_failures, login_log, login_response, parservars,
                   netvars, threadvars, crawlvars, histvars, ghostvars>>

\* ------------------------------------------------------------- main.py (2)
\* Variant: the return after a failed login is missing
LoginFailedReturn_GoesOn ==
    /\ pc = "login_done"
    /\ login_result = "False"
    /\ parser' = "bs4"
    /\ IF mode = "full"
       THEN pc' = "select_pages" /\ page_num' = page_num
       ELSE pc' = "author_loop" /\ page_num' = 1
    /\ UNCHANGED <<cfgvars, unitvars, tokvars, exc, cancelled, site_check, authvars, attempt, driver,
                   own_driver, drivers_created, drivers_quit, pages,
                   pages_to_scrape,
                   idx, quotes, all_quotes, author_quotes, histvars,
                   netvars, threadvars, ghostvars>>

\* "if not await auth.login(): ... return": the run leaves the
\* Authenticator context without creating an engine
LoginFailedReturn ==
    /\ pc = "login_done"
    /\ login_result = "False"
    /\ pc' = "aexit"
    /\ UNCHANGED <<cfgvars, unitvars, tokvars, exc, cancelled, site_check, authvars, attempt, parservars,
                   netvars, threadvars, crawlvars, histvars, ghostvars>>

\* Variant: a type the factory does not know gets the static parser
create_parser_fails_FallsBack(ptype) == FALSE

\* ParserFactory.create_parser: the lower-cased type must be a key of
\* PARSER_TYPES
create_parser_fails(ptype) == Lower(ptype) \notin PARSER_TYPES

\* AsyncScraper(config, logger, auth.session): the constructor creates
\* the parser; an unknown type raises ValueError out of the with block.
\* The crawl method of the run mode is entered when it succeeds.
CreateScraper ==
    /\ pc = "login_done"
    /\ login_result = "True"
    /\ IF create_parser_fails(parser_type)
       THEN /\ exc' = "ValueError"
            /\ pc' = "aexit"
            /\ UNCHANGED <<parser, own_driver, page_num>>
       ELSE /\ parser' = (IF Lower(parser_type) = "selenium" THEN "selenium"
                        ELSE "bs4")
            \* the factory calls SeleniumParser() without a driver
            /\ own_driver' = (IF Lower(parser_type) = "selenium" THEN "True"
                              ELSE None)
            /\ exc' = exc
            /\ IF mode = "full"
               THEN pc' = "select_pages" /\ page_num' = page_num
               ELSE pc' = "author_loop" /\ page_num' = 1
    \* the locals of login() are gone
    /\ attempt' = 0
    /\ login_gets' = 0 /\ login_posts' = 0 /\ login_delays' = 0
    /\ login_failures' = 0
    /\ login_log' = <<>>
    /\ login_response' = <<>>
    /\ UNCHANGED <<cfgvars, unitvars, tokvars, cancelled, site_check, session, session_closes, used_closed, session_used,
                   csrf_token, login_result, driver, drivers_created,
                   drivers_quit, pages, pages_to_scrape, idx, quotes,
                   all_quotes, author_quotes, histvars, netvars, threadvars,
                   ghostvars>>

\* ------------------------------------------------------------- scraper.py
\* Variant: the fixed plan is range(1, max_pages), one page short
select_pages_RangeOneShort ==
    /\ pc = "select_pages"
    /\ IF max_pages = 0
       THEN /\ pc' = "discover"
            /\ page_num' = 1
            /\ pages' = <<>>
            /\ UNCHANGED pages_to_scrape
       ELSE /\ pc' = "plan_ready"
            /\ IF random_pages
               THEN \E smp \in Samples(max_pages) :
                        pages_to_scrape' = sorted(smp)
               ELSE pages_to_scrape' = UpTo(max_pages - 1)
            /\ UNCHANGED <<page_num, pages>>
    /\ UNCHANGED <<cfgvars, unitvars, tokvars, exc, cancelled, site_check, authvars, attempt, parservars,
                   idx, quotes, all_quotes, author_quotes, histvars,
                   netvars, threadvars, ghostvars>>

\* _select_pages_to_scrape
_select_pages_to_scrape ==
    /\ pc = "select_pages"
    /\ IF max_pages = 0
       THEN /\ pc' = "discover"
            /\ page_num' = 1
            /\ pages' = <<>>
            /\ UNCHANGED pages_to_scrape
       ELSE /\ pc' = "plan_ready"
            /\ IF random_pages
               THEN \E smp \in Samples(max_pages) :
                        pages_to_scrape' = sorted(smp)
               ELSE pages_to_scrape' = UpTo(max_pages)
            /\ UNCHANGED <<page_num, pages>>
    /\ UNCHANGED <<cfgvars, unitvars, tokvars, exc, cancelled, site_check, authvars, attempt, parservars,
                   idx, quotes, all_quotes, author_quotes, histvars,
                   netvars, threadvars, ghostvars>>

\* The browser after an operation that needs it: _get_driver creates it
\* on first use and keeps it
DriverAfter(r) ==
    /\ driver' = (IF r.kind = "driver_error" THEN driver ELSE "alive")
    /\ drivers_created' =
         (IF driver = "none" /\ r.kind # "driver_error"
          THEN drivers_created + 1 ELSE drivers_created)
    /\ UNCHANGED <<parser, own_driver, drivers_quit>>

\* _has_no_quotes over what its request ended in.  With the selenium
\* parser the page source of the browser is examined and every exception
\* gives False; with the session 200 examines the body, 404 gives True,
\* every other status and every exception gives False.
HasNoQuotes(r) ==
    IF r.kind = "loaded" THEN has_no_quotes(r.body)
    ELSE IF r.kind = "response"
    THEN (IF r.status = 200 THEN has_no_quotes(r.body) ELSE r.status = 404)
    ELSE FALSE

\* _has_next_page over what its request ended in
HasNextPage(r) ==
    IF r.kind = "loaded" THEN has_next_page(r.body)
    ELSE IF r.kind = "response" /\ r.status = 200 THEN has_next_page(r.body)
    ELSE FALSE

\* Variant: when the browser operation fails the request is made again
\* through the session
Request_SessionFallback(r) ==
    IF parser = "selenium"
    THEN \/ /\ r \in BrowserResults(driver)
            /\ DriverAfter(r)
            /\ UNCHANGED <<used_closed, session_used>>
         \/ /\ r \in StaticResponses
            /\ used_closed' = (used_closed \/ session = "closed")
            /\ session_used' = TRUE
            /\ UNCHANGED parservars
    ELSE /\ r \in StaticResponses
         /\ used_closed' = (used_closed \/ session = "closed")
         /\ session_used' = TRUE
         /\ UNCHANGED parservars

\* The request of a probe or next-page check: through the browser with
\* the selenium parser, through the session otherwise
Request(r) ==
    IF parser = "selenium"
    THEN /\ r \in BrowserResults(driver)
         /\ DriverAfter(r)
         /\ UNCHANGED <<used_closed, session_used>>
    ELSE /\ r \in StaticResponses
         /\ used_closed' = (used_closed \/ session = "closed")
         /\ session_used' = TRUE
         /\ UNCHANGED parservars

\* Variant: the page is appended before the terminal check
DiscoverStep_IncludesTerminal(r) ==
    IF HasNoQuotes(r)
    THEN /\ pc' = "plan_ready"
         /\ pages_to_scrape' = Append(pages, page_num)
         /\ UNCHANGED <<page_num, pages>>
    ELSE /\ pages' = Append(pages, page_num)
         /\ page_num' = page_num + 1
         /\ UNCHANGED <<pc, pages_to_scrape>>

\* One iteration of the loop of _discover_pages
DiscoverStep(r) ==
    IF HasNoQuotes(r)
    THEN /\ pc' = "plan_ready"
         /\ pages_to_scrape' = pages
         /\ UNCHANGED <<page_num, pages>>
    ELSE /\ pages' = Append(pages, page_num)
         /\ page_num' = page_num + 1
         /\ UNCHANGED <<pc, pages_to_scrape>>

\* Page numbers above MaxProbePage are not told apart: page_num stays for
\* all of them and they are not listed.  Of the probes of such pages only
\* those that leave the loop running are followed.
_discover_pages ==
    /\ pc = "discover"
    /\ Receive
    /\ \E r \in StaticResponses \cup BrowserResults(driver) :
         /\ Request(r)
         /\ probe_answered' =
              (probe_answered \/ Outcome(r) \in {"200", "200_marker", "404"})
         /\ IF page_num <= MaxProbePage
            THEN /\ probe_log' = Append(probe_log, Outcome(r))
                 /\ DiscoverStep(r)
                 /\ UNCHANGED probes_beyond
            ELSE /\ ~HasNoQuotes(r)
                 /\ probes_beyond' = 1 - probes_beyond
                 /\ UNCHANGED <<pc, page_num, pages, pages_to_scrape,
                                probe_log>>
    /\ probed' = TRUE
    /\ UNCHANGED <<cfgvars, unitvars, tokvars, exc, cancelled, site_check, session, session_closes,
                   csrf_token, login_result, login_gets, login_posts,
                   login_delays, login_failures, login_log, login_response, attempt, idx,
                   quotes, all_quotes, author_quotes, fetch_status, fetch_html,
                   fetch_gets, fetch_failures, fetch_delays, visited,
                   per_page, fetched, next_checked, saved, threadvars,
                   ghostvars>>

\* The call of _scrape_page_with_retry(page) begins
StartFetch(page) ==
    /\ page_num' = page
    /\ attempt' = 0
    /\ fetch_status' = None
    /\ fetch_html' = <<>>
    /\ fetch_gets' = 0 /\ fetch_failures' = 0 /\ fetch_delays' = 0
    /\ visited' = Append(visited, page)
    /\ pc' = "fetch"

\* The for loop of scrape_random_pages: the next planned page, or the
\* return of the accumulated list
CrawlNext ==
    /\ pc \in {"plan_ready", "crawl_loop"}
    /\ LET i == IF pc = "plan_ready" THEN 1 ELSE idx
       IN  /\ idx' = i
           /\ IF i > Len(pages_to_scrape)
              THEN /\ pc' = "crawl_done"
                   /\ UNCHANGED <<page_num, attempt, fetch_status, fetch_html, fetch_gets,
                                  fetch_failures, fetch_delays, visited>>
              ELSE StartFetch(pages_to_scrape[i])
    /\ pages' = <<>>
    /\ probe_log' = <<>>
    /\ probe_answered' = FALSE
    /\ UNCHANGED probes_beyond
    /\ UNCHANGED <<cfgvars, unitvars, tokvars, exc, cancelled, site_check, authvars, parservars,
                   pages_to_scrape, quotes, all_quotes, author_quotes,
                   per_page, probed, fetched, next_checked, saved,
                   netvars, threadvars, ghostvars>>

\* Variant: the attempt bound is off by one, one attempt too many
FetchAttemptFailed_ExtraAttempt ==
    /\ fetch_failures' = fetch_failures + 1
    /\ IF attempt < retry_attempts
       THEN pc' = "fetch_sleep" /\ quotes' = quotes
       ELSE pc' = "fetched" /\ quotes' = <<>>

\* Variant: the exhausted budget ends the crawl instead of the page
FetchAttemptFailed_AbortsCrawl ==
    /\ fetch_failures' = fetch_failures + 1
    /\ IF attempt < retry_attempts - 1
       THEN pc' = "fetch_sleep" /\ quotes' = quotes
       ELSE pc' = "close_scraper" /\ quotes' = <<>>

\* Variant: the failing branches sleep without looking at the attempts
\* that remain
FetchAttemptFailed_AlwaysSleeps ==
    /\ fetch_failures' = fetch_failures + 1
    /\ pc' = "fetch_sleep" /\ quotes' = quotes

\* The tail shared by the failing branches of _scrape_page_with_retry:
\* sleep and continue while attempts remain, otherwise the loop ends and
\* the empty list is returned
FetchAttemptFailed ==
    /\ fetch_failures' = fetch_failures + 1
    /\ IF attempt < retry_attempts - 1
       THEN pc' = "fetch_sleep" /\ quotes' = quotes
       ELSE pc' = "fetched" /\ quotes' = <<>>

\* Variant: 404 is retried like every other status
StaticFetch_Retry404(r) ==
    IF r.kind = "response" /\ r.status = 200
    THEN pc' = "fetched" /\ quotes' = parse_quotes_from_html(r.body)
                         /\ UNCHANGED fetch_failures
    ELSE FetchAttemptFailed

\* Variant: a page that gave no record counts as a failed attempt
StaticFetch_RetryEmpty(r) ==
    IF r.kind = "response" /\ r.status = 200
       /\ parse_quotes_from_html(r.body) # <<>>
    THEN pc' = "fetched" /\ quotes' = parse_quotes_from_html(r.body)
                         /\ UNCHANGED fetch_failures
    ELSE IF r.kind = "response" /\ r.status = 404
    THEN pc' = "fetched" /\ quotes' = <<>> /\ UNCHANGED fetch_failures
    ELSE FetchAttemptFailed

\* One pass of the loop of _scrape_page_with_retry (session) on answer r
StaticFetch(r) ==
    IF r.kind = "response" /\ r.status = 200
    THEN pc' = "fetched" /\ quotes' = parse_quotes_from_html(r.body)
                         /\ UNCHANGED fetch_failures
    ELSE IF r.kind = "response" /\ r.status = 404
    THEN pc' = "fetched" /\ quotes' = <<>> /\ UNCHANGED fetch_failures
    ELSE FetchAttemptFailed

\* SeleniumParser.parse_quotes_from_url on a loaded page: no element of
\* class quote within the wait gives [], otherwise the parsed blocks
parse_quotes_from_url(r) ==
    IF r.kind = "loaded" /\ r.body.blocks # <<>>
    THEN SeleniumParseBlocks(r.body.blocks)
    ELSE <<>>

\* Variant: a page that gave no record counts as a failed attempt
SeleniumFetch_RetryEmpty(r) ==
    IF r.kind = "driver_error" \/ parse_quotes_from_url(r) = <<>>
    THEN FetchAttemptFailed
    ELSE pc' = "fetched" /\ quotes' = parse_quotes_from_url(r)
                         /\ UNCHANGED fetch_failures

\* One pass of the loop of _scrape_page_with_selenium on outcome r: only
\* _get_driver can raise out of parse_quotes_from_url, a failing
\* driver.get is swallowed there
SeleniumFetch(r) ==
    IF r.kind = "driver_error"
    THEN FetchAttemptFailed
    ELSE pc' = "fetched" /\ quotes' = parse_quotes_from_url(r)
                         /\ UNCHANGED fetch_failures

_scrape_page_with_retry ==
    /\ pc = "fetch"
    /\ Receive
    /\ \E r \in StaticResponses \cup BrowserResults(driver) :
         /\ Request(r)
         /\ fetch_status' = Outcome(r)
         \* html = await response.text(); driver.page_source
         /\ fetch_html' = (IF r.kind \in {"response", "loaded"} /\ r.status = 200
                           THEN <<r.body>> ELSE <<>>)
         /\ IF parser = "selenium" THEN SeleniumFetch(r) ELSE StaticFetch(r)
    /\ fetch_gets' = fetch_gets + 1
    /\ fetched' = TRUE
    /\ UNCHANGED <<cfgvars, unitvars, tokvars, exc, cancelled, site_check, session, session_closes,
                   csrf_token, login_result, login_gets, login_posts,
                   login_delays, login_failures, login_log, login_response, attempt,
                   page_num, pages, pages_to_scrape, idx, all_quotes,
                   author_quotes, probe_log, probe_answered, probes_beyond,
                   fetch_delays, visited, per_page,
                   probed, next_checked, saved, threadvars, ghostvars>>

\* asyncio.sleep(retry_delay) and the continue that follows it
FetchSleep ==
    /\ pc = "fetch_sleep"
    /\ fetch_delays' = fetch_delays + 1
    /\ attempt' = attempt + 1
    /\ pc' = "fetch"
    /\ UNCHANGED <<cfgvars, unitvars, tokvars, exc, cancelled, site_check, authvars, parservars, crawlvars,
                   probe_log, probe_answered, probes_beyond, fetch_status, fetch_html,
                   fetch_gets, fetch_failures, visited, per_page, probed,
                   fetched, next_checked, saved, netvars, threadvars,
                   ghostvars>>

\* The call of _scrape_page_with_retry that just returned ended in a
\* failure: its last request got no page and no 404
PageFailed == fetch_status \notin {"200", "200_marker", "404"}

\* Variant: a page without quotes ends the loop
CrawlCollect_BreakOnEmpty ==
    /\ pc = "fetched"
    /\ mode = "full"
    /\ all_quotes' = (IF quotes # <<>> THEN all_quotes \o quotes ELSE all_quotes)
    /\ per_page' = Append(per_page, quotes)
    /\ idx' = idx + 1
    /\ quotes' = <<>>
    /\ pc' = (IF quotes = <<>> THEN "crawl_done" ELSE "crawl_loop")
    /\ all_failed' = (all_failed /\ PageFailed)
    /\ UNCHANGED <<cfgvars, unitvars, tokvars, exc, cancelled, site_check, authvars, attempt, parservars,
                   page_num, pages, pages_to_scrape, author_quotes, probe_log,
                   probe_answered, probes_beyond,
                   fetch_status, fetch_html, fetch_gets, fetch_failures, fetch_delays,
                   visited, probed, fetched, next_checked, saved, netvars,
                   threadvars, iterations, terminal_page, terminal_how,
                   cancel_at, page_gets>>

\* scrape_random_pages after the page's call returned: "if quotes:
\* all_quotes.extend(quotes)", then the next page
CrawlCollect ==
    /\ pc = "fetched"
    /\ mode = "full"
    /\ all_quotes' = (IF quotes # <<>> THEN all_quotes \o quotes ELSE all_quotes)
    /\ per_page' = Append(per_page, quotes)
    /\ idx' = idx + 1
    /\ quotes' = <<>>
    /\ pc' = "crawl_loop"
    /\ all_failed' = (all_failed /\ PageFailed)
    /\ UNCHANGED <<cfgvars, unitvars, tokvars, exc, cancelled, site_check, authvars, attempt, parservars,
                   page_num, pages, pages_to_scrape, author_quotes, probe_log,
                   probe_answered, probes_beyond,
                   fetch_status, fetch_html, fetch_gets, fetch_failures, fetch_delays,
                   visited, probed, fetched, next_checked, saved, netvars,
                   threadvars, iterations, terminal_page, terminal_how,
                   cancel_at, page_gets>>

\* Variant: the page is scraped whatever its probe showed
AuthorStep_ScrapesTerminal(r) ==
    StartFetch(page_num)

\* scrape_author_quotes on the answer r of the probe of page_num: the
\* loop ends when _has_no_quotes is true, the page is scraped otherwise
AuthorStep(r) ==
    IF HasNoQuotes(r)
    THEN /\ pc' = "author_done"
         /\ UNCHANGED <<page_num, attempt, fetch_status, fetch_html, fetch_gets,
                        fetch_failures, fetch_delays, visited>>
    ELSE StartFetch(page_num)

\* One iteration head of the loop of scrape_author_quotes: the ceiling
\* check, then the terminal probe
AuthorProbe ==
    /\ pc = "author_loop"
    /\ IF CeilingReached
       THEN /\ pc' = "author_done"
            /\ UNCHANGED <<used_closed, session_used, parservars, page_num, attempt,
                           fetch_status, fetch_html, fetch_gets, fetch_failures,
                           fetch_delays, visited, probed, netvars,
                           iterations, terminal_page, terminal_how>>
       ELSE /\ Receive
            /\ probed' = TRUE
            /\ iterations' = iterations + 1
            /\ \E r \in StaticResponses \cup BrowserResults(driver) :
                 /\ Request(r)
                 /\ AuthorStep(r)
                 /\ IF terminal_page = 0
                       /\ Outcome(r) \in {"200_marker", "404"}
                    THEN /\ terminal_page' = page_num
                         /\ terminal_how' = Outcome(r)
                    ELSE UNCHANGED <<terminal_page, terminal_how>>
    /\ UNCHANGED <<cfgvars, unitvars, tokvars, exc, cancelled, site_check, session, session_closes,
                   csrf_token, login_result, login_gets, login_posts,
                   login_delays, login_failures, login_log, login_response, pages,
                   pages_to_scrape, idx, quotes, all_quotes, author_quotes,
                   probe_log, probe_answered, probes_beyond, per_page,
                   fetched, next_checked, saved, threadvars, all_failed,
                   cancel_at, page_gets>>

\* scrape_author_quotes after the page's call returned: the matching
\* records are kept (none when the page gave nothing)
AuthorCollect ==
    /\ pc = "fetched"
    /\ mode = "author"
    /\ author_quotes' = author_quotes \o AuthorFilter(quotes, author_name)
    /\ per_page' = Append(per_page, quotes)
    /\ quotes' = <<>>
    /\ pc' = "author_next"
    /\ UNCHANGED <<cfgvars, unitvars, tokvars, exc, cancelled, site_check, authvars, attempt, parservars,
                   page_num, pages, pages_to_scrape, idx, all_quotes,
                   probe_log, probe_answered, probes_beyond, fetch_status, fetch_html,
                   fetch_gets, fetch_failures, fetch_delays, visited, probed,
                   fetched, next_checked, saved, netvars, threadvars,
                   ghostvars>>

\* Variant: the page number is not advanced after the next-page check
AuthorNext_SamePage ==
    /\ pc = "author_next"
    /\ Receive
    /\ next_checked' = TRUE
    /\ \E r \in StaticResponses \cup BrowserResults(driver) :
         /\ Request(r)
         /\ IF HasNextPage(r)
            THEN /\ pc' = "author_loop" /\ page_num' = page_num
                 /\ page_gets' = page_gets
            ELSE /\ pc' = "author_done" /\ page_num' = page_num
                 /\ page_gets' = page_gets
    /\ UNCHANGED <<cfgvars, unitvars, tokvars, exc, cancelled, site_check, session, session_closes,
                   csrf_token, login_result, login_gets, login_posts,
                   login_delays, login_failures, login_log, login_response, attempt,
                   pages, pages_to_scrape, idx, quotes, all_quotes,
                   author_quotes, probe_log, probe_answered, probes_beyond,
                   fetch_status, fetch_html, fetch_gets,
                   fetch_failures, fetch_delays, visited, per_page, probed,
                   fetched, saved, threadvars, all_failed, iterations,
                   terminal_page, terminal_how, cancel_at>>

\* "if not await self._has_next_page(page_num): break", else page_num += 1
AuthorNext ==
    /\ pc = "author_next"
    /\ Receive
    /\ next_checked' = TRUE
    /\ \E r \in StaticResponses \cup BrowserResults(driver) :
         /\ Request(r)
         /\ IF HasNextPage(r)
            THEN /\ pc' = "author_loop" /\ page_num' = page_num + 1
                 /\ page_gets' = 0
            ELSE /\ pc' = "author_done" /\ page_num' = page_num
                 /\ page_gets' = page_gets
    /\ UNCHANGED <<cfgvars, unitvars, tokvars, exc, cancelled, site_check, session, session_closes,
                   csrf_token, login_result, login_gets, login_posts,
                   login_delays, login_failures, login_log, login_response, attempt,
                   pages, pages_to_scrape, idx, quotes, all_quotes,
                   author_quotes, probe_log, probe_answered, probes_beyond,
                   fetch_status, fetch_html, fetch_gets,
                   fetch_failures, fetch_delays, visited, per_page, probed,
                   fetched, saved, threadvars, all_failed, iterations,
                   terminal_page, terminal_how, cancel_at>>

\* ------------------------------------------------------------- main.py (3)
\* The locals of the crawl method and of the calls it made are gone
\* when it returns or is unwound
DropCrawlLocals ==
    /\ attempt' = 0
    /\ page_num' = 0
    /\ pages' = <<>>
    /\ pages_to_scrape' = <<>>
    /\ idx' = 0
    /\ quotes' = <<>>
    /\ probe_log' = <<>>
    /\ probe_answered' = FALSE
    /\ probes_beyond' = 0
    /\ fetch_status' = None
    /\ fetch_html' = <<>>
    /\ fetch_gets' = 0 /\ fetch_failures' = 0 /\ fetch_delays' = 0
    /\ visited' = <<>>
    /\ per_page' = <<>>
    /\ all_failed' = TRUE
    /\ iterations' = 0
    /\ terminal_page' = 0
    /\ terminal_how' = None
    /\ page_gets' = 0

\* After the crawl method returned: the records are handed to the storage
\* when there are any, then the finally block is entered
SaveResults ==
    /\ pc \in {"crawl_done", "author_done"}
    /\ saved' = IF pc = "crawl_done" THEN all_quotes # <<>>
                ELSE author_quotes # <<>>
    /\ DropCrawlLocals
    /\ pc' = "close_scraper"
    /\ UNCHANGED <<cfgvars, unitvars, tokvars, exc, cancelled, site_check, authvars, parservars,
                   all_quotes, author_quotes, probed, fetched, next_checked,
                   netvars, threadvars, cancel_at>>

\* Variant: the reference to the browser is kept after the quit
parser_close_KeepsReference ==
    /\ drivers_quit' = (IF driver = "alive" THEN drivers_quit + 1
                        ELSE drivers_quit)
    /\ UNCHANGED <<parser, driver, own_driver, drivers_created>>

\* Variant: the browser is quit whoever created it
parser_close_QuitsAny ==
    /\ driver' = "none"
    /\ drivers_quit' = (IF driver = "alive" THEN drivers_quit + 1
                        ELSE drivers_quit)
    /\ UNCHANGED <<parser, own_driver, drivers_created>>

\* SeleniumParser.close: "if self._own_driver and self.driver": the
\* browser is quit if the parser owns one, and the reference to it is
\* dropped
parser_close ==
    IF own_driver = "True" /\ driver = "alive"
    THEN /\ driver' = "none"
         /\ drivers_quit' = drivers_quit + 1
         /\ UNCHANGED <<parser, own_driver, drivers_created>>
    ELSE UNCHANGED parservars

\* Variant: the engine closes the session it was given
close_ClosesSession ==
    /\ pc = "close_scraper"
    /\ close_calls < MaxCloses
    /\ close_calls' = close_calls + 1
    /\ IF parser = "selenium" THEN parser_close ELSE UNCHANGED parservars
    /\ session' = "closed" /\ session_closes' = session_closes + 1
    /\ \/ pc' = "aexit"
       \/ close_calls + 1 < MaxCloses /\ pc' = "close_scraper"
    /\ UNCHANGED <<cfgvars, unitvars, tokvars, exc, cancelled, site_check, used_closed,
                   session_used, csrf_token, login_result, login_gets,
                   login_posts, login_delays, login_failures, login_log,
                   login_response, attempt, crawlvars, histvars, netvars,
                   worker, ghostvars>>

\* AsyncScraper.close.  main.py awaits it from the finally block; the
\* engine is still at hand there, and the call may be repeated before the
\* block is left (up to MaxCloses calls are explored).
close ==
    /\ pc = "close_scraper"
    /\ close_calls < MaxCloses
    /\ close_calls' = close_calls + 1
    /\ IF parser = "selenium" THEN parser_close ELSE UNCHANGED parservars
    /\ \/ pc' = "aexit"
       \/ close_calls + 1 < MaxCloses /\ pc' = "close_scraper"
    /\ UNCHANGED <<cfgvars, unitvars, tokvars, exc, cancelled, site_check, authvars, attempt, crawlvars,
                   histvars, netvars, worker, ghostvars>>

\* Variant: the session is closed only when the block ended normally
aexit_OnlyWithoutException ==
    /\ pc = "aexit"
    /\ IF session # "none" /\ exc = None
       THEN session' = "closed" /\ session_closes' = session_closes + 1
       ELSE UNCHANGED <<session, session_closes>>
    /\ pc' = "done"
    /\ UNCHANGED <<cfgvars, unitvars, tokvars, exc, cancelled, site_check, used_closed, session_used, csrf_token,
                   login_result, login_gets, login_posts, login_delays,
                   login_failures, login_log, login_response, attempt, parservars,
                   netvars, threadvars, crawlvars, histvars, ghostvars>>

\* Authenticator.__aexit__: "if self.session: await self.session.close()"
__aexit__ ==
    /\ pc = "aexit"
    /\ IF session # "none"
       THEN session' = "closed" /\ session_closes' = session_closes + 1
       ELSE UNCHANGED <<session, session_closes>>
    /\ pc' = "done"
    /\ UNCHANGED <<cfgvars, unitvars, tokvars, exc, cancelled, site_check, used_closed, session_used, csrf_token,
                   login_result, login_gets, login_posts, login_delays,
                   login_failures, login_log, login_response, attempt, parservars,
                   netvars, threadvars, crawlvars, histvars, ghostvars>>

\* ------------------------------------------------------------- cancellation
\* The positions at which the run is suspended in an await
LoginAwaits == {"login_get", "login_post", "login_sleep"}
CrawlAwaits == {"discover", "fetch", "fetch_sleep", "author_loop",
                "author_next"}

\* A request of the engine that runs in a worker thread
BrowserOperation ==
    /\ parser = "selenium"
    /\ pc \in CrawlAwaits \cap RequestPositions
    /\ waiting

\* The task of the run is cancelled while it is suspended: CancelledError
\* is raised at the await and unwinds through the finally block of the
\* engine (when inside it) and the exit of the Authenticator context
\* (when inside it).  A request through a session is given up with its
\* await.  A thread started by asyncio.to_thread is not stopped: a browser
\* operation goes on in its thread, creating the browser first when the
\* parser has none, and a cancelled close() of the selenium parser may or
\* may not have run.
Cancel ==
    /\ ~cancelled
    /\ cancelled' = TRUE
    /\ exc' = "CancelledError"
    /\ cancel_at' = pc
    /\ waiting' = FALSE
    /\ url' = None
    /\ \/ /\ pc = "check_site" /\ waiting
          /\ pc' = "done"
          /\ in_flight' = in_flight - 1
          /\ UNCHANGED <<parservars, threadvars>>
       \/ /\ pc \in LoginAwaits
          /\ pc \in RequestPositions => waiting
          /\ pc' = "aexit"
          /\ in_flight' = (IF waiting THEN in_flight - 1 ELSE in_flight)
          /\ UNCHANGED <<parservars, threadvars>>
       \/ /\ pc \in CrawlAwaits
          /\ pc \in RequestPositions => waiting
          /\ pc' = "close_scraper"
          /\ IF BrowserOperation
             THEN /\ worker' = (IF driver = "none" THEN "creating"
                                ELSE "navigating")
                  /\ UNCHANGED in_flight
             ELSE /\ in_flight' = (IF waiting THEN in_flight - 1
                                   ELSE in_flight)
                  /\ UNCHANGED worker
          /\ UNCHANGED <<parservars, close_calls>>
       \/ /\ pc = "close_scraper"
          /\ parser = "selenium"
          /\ close_calls < MaxCloses
          /\ close_calls' = close_calls + 1
          /\ pc' = "aexit"
          /\ \/ parser_close
             \/ UNCHANGED parservars
          /\ UNCHANGED <<in_flight, worker>>
    \* the frames of login() and of the crawl method are unwound
    /\ csrf_token' = None
    /\ page_token' = None /\ post_token' = None
    /\ login_gets' = 0 /\ login_posts' = 0 /\ login_delays' = 0
    /\ login_failures' = 0
    /\ login_log' = <<>>
    /\ login_response' = <<>>
    /\ DropCrawlLocals
    /\ all_quotes' = <<>>
    /\ author_quotes' = <<>>
    /\ UNCHANGED <<cfgvars, unitvars, site_check, session, session_closes,
                   used_closed, session_used,
                   login_result, probed, fetched, next_checked, saved>>

\* The browser operation left in its thread comes to its end: _get_driver
\* creates the browser (or fails to) when the thread was still creating
\* it, and the navigation ends
WorkerFinish ==
    /\ worker # "idle"
    /\ worker' = "idle"
    /\ in_flight' = in_flight - 1
    /\ IF worker = "creating"
       THEN \/ /\ driver' = "alive"
               /\ drivers_created' = drivers_created + 1
               /\ UNCHANGED <<parser, own_driver, drivers_quit>>
            \/ UNCHANGED parservars
       ELSE UNCHANGED parservars
    /\ UNCHANGED <<cfgvars, unitvars, tokvars, runvars, authvars, attempt,
                   waiting, url, close_calls, crawlvars, histvars, ghostvars>>

\* ------------------------------------------------------------- specification
Step ==
    \/ SendRequest
    \/ _check_site_availability
    \/ __aenter__
    \/ LoginGet
    \/ LoginPost
    \/ LoginSleep
    \/ LoginFailedReturn
    \/ CreateScraper
    \/ _select_pages_to_scrape
    \/ _discover_pages
    \/ CrawlNext
    \/ _scrape_page_with_retry
    \/ FetchSleep
    \/ CrawlCollect
    \/ AuthorProbe
    \/ AuthorCollect
    \/ AuthorNext
    \/ SaveResults
    \/ close
    \/ __aexit__
    \/ WorkerFinish

Next == Step \/ Cancel

Spec == Init /\ [][Next]_vars

\* The event loop resumes the run's task whenever it can continue; an
\* outside cancellation need never come
FairSpec == Spec /\ WF_vars(Step)

\* ------------------------------------------------------------- storage
\* Python values as json.dump sees them: a str is the sequence of its
\* characters, a list the sequence of its items, a dict the sequence of
\* its (key, value) pairs in insertion order
Str(cs) == [str |-> cs]
List(xs) == [list |-> xs]
Dict(ps) == [dict |-> ps]
\* What json.load gives for a text that is no JSON document (the model's
\* stand-in for JSONDecodeError)
Invalid == [invalid |-> TRUE]

\* The record the parsers build: {"text": ..., "author": ..., "tags": [...]}
Quote(t, a, tags) ==
    Dict(<< <<Str(<<"t", "e", "x", "t">>), Str(t)>>,
            <<Str(<<"a", "u", "t", "h", "o", "r">>), Str(a)>>,
            <<Str(<<"t", "a", "g", "s">>),
              List([i \in 1..Len(tags) |-> Str(tags[i])])>> >>)

\* Variant: the backslash is written as it is
RECURSIVE json_escape_BackslashAsIs(_)
json_escape_BackslashAsIs(cs) ==
    IF cs = <<>> THEN <<>>
    ELSE (CASE Head(cs) = "\"" -> <<"\\", "\"">>
            [] Head(cs) = "\n" -> <<"\\", "n">>
            [] OTHER -> <<Head(cs)>>) \o json_escape_BackslashAsIs(Tail(cs))

\* The body of a JSON string as json.dump(ensure_ascii=False) writes it:
\* quotation mark, backslash and newline are escaped with a backslash
RECURSIVE json_escape(_)
json_escape(cs) ==
    IF cs = <<>> THEN <<>>
    ELSE (CASE Head(cs) = "\"" -> <<"\\", "\"">>
            [] Head(cs) = "\\" -> <<"\\", "\\">>
            [] Head(cs) = "\n" -> <<"\\", "n">>
            [] OTHER -> <<Head(cs)>>) \o json_escape(Tail(cs))

\* indent=2: a new line and two spaces for each level
RECURSIVE Spaces(_)
Spaces(n) == IF n = 0 THEN <<>> ELSE <<" ", " ">> \o Spaces(n - 1)
Indent(depth) == <<"\n">> \o Spaces(depth)

\* json.dump(value, f, ensure_ascii=False, indent=2): the characters
\* written for a value at a nesting depth
RECURSIVE json_dump(_, _), json_dump_items(_, _), json_dump_members(_, _)
json_dump(v, depth) ==
    CASE "str" \in DOMAIN v -> <<"\"">> \o json_escape(v.str) \o <<"\"">>
      [] "list" \in DOMAIN v ->
            IF v.list = <<>> THEN <<"[", "]">>
            ELSE <<"[">> \o json_dump_items(v.list, depth + 1)
                         \o Indent(depth) \o <<"]">>
      [] "dict" \in DOMAIN v ->
            IF v.dict = <<>> THEN <<"{", "}">>
            ELSE <<"{">> \o json_dump_members(v.dict, depth + 1)
                         \o Indent(depth) \o <<"}">>
json_dump_items(xs, depth) ==
    Indent(depth) \o json_dump(Head(xs), depth)
        \o (IF Tail(xs) = <<>> THEN <<>>
            ELSE <<",">> \o json_dump_items(Tail(xs), depth))
json_dump_members(ps, depth) ==
    Indent(depth) \o json_dump(Head(ps)[1], depth) \o <<":", " ">>
        \o json_dump(Head(ps)[2], depth)
        \o (IF Tail(ps) = <<>> THEN <<>>
            ELSE <<",">> \o json_dump_members(Tail(ps), depth))

\* json.load: a parse of the characters; every operator gives the value
\* read and the characters left
Parsed(v, rest) == [value |-> v, rest |-> rest]
RECURSIVE SkipWs(_)
SkipWs(cs) ==
    IF cs # <<>> /\ Head(cs) \in {" ", "\n"} THEN SkipWs(Tail(cs)) ELSE cs

\* The characters of a string up to its closing quotation mark
RECURSIVE json_string_body(_)
json_string_body(cs) ==
    IF cs = <<>> THEN Parsed(Invalid, <<>>)
    ELSE IF Head(cs) = "\"" THEN Parsed(Str(<<>>), Tail(cs))
    ELSE IF Head(cs) = "\n" THEN Parsed(Invalid, <<>>)
    ELSE IF Head(cs) = "\\"
    THEN IF Len(cs) < 2 \/ cs[2] \notin {"\"", "\\", "n"}
         THEN Parsed(Invalid, <<>>)
         ELSE LET c == CASE cs[2] = "n" -> "\n"
                         [] OTHER -> cs[2]
                  more == json_string_body(Tail(Tail(cs)))
              IN  IF more.value = Invalid THEN more
                  ELSE Parsed(Str(<<c>> \o more.value.str), more.rest)
    ELSE LET more == json_string_body(Tail(cs))
         IN  IF more.value = Invalid THEN more
             ELSE Parsed(Str(<<Head(cs)>> \o more.value.str), more.rest)

RECURSIVE json_value(_), json_items(_), json_members(_)
json_value(text) ==
    LET cs == SkipWs(text)
    IN  IF cs = <<>> THEN Parsed(Invalid, <<>>)
        ELSE IF Head(cs) = "\"" THEN json_string_body(Tail(cs))
        ELSE IF Head(cs) = "["
        THEN (IF SkipWs(Tail(cs)) # <<>> /\ Head(SkipWs(Tail(cs))) = "]"
              THEN Parsed(List(<<>>), Tail(SkipWs(Tail(cs))))
              ELSE json_items(Tail(cs)))
        ELSE IF Head(cs) = "{"
        THEN (IF SkipWs(Tail(cs)) # <<>> /\ Head(SkipWs(Tail(cs))) = "}"
              THEN Parsed(Dict(<<>>), Tail(SkipWs(Tail(cs))))
              ELSE json_members(Tail(cs)))
        ELSE Parsed(Invalid, <<>>)
\* the items of an array after its opening bracket or a comma
json_items(text) ==
    LET first == json_value(text)
        cs == SkipWs(first.rest)
    IN  IF first.value = Invalid \/ cs = <<>> THEN Parsed(Invalid, <<>>)
        ELSE IF Head(cs) = "]" THEN Parsed(List(<<first.value>>), Tail(cs))
        ELSE IF Head(cs) = ","
        THEN LET more == json_items(Tail(cs))
             IN  IF more.value = Invalid THEN more
                 ELSE Parsed(List(<<first.value>> \o more.value.list),
                             more.rest)
        ELSE Parsed(Invalid, <<>>)
\* the members of an object after its opening brace or a comma
json_members(text) ==
    LET key == json_value(text)
        colon == SkipWs(key.rest)
    IN  IF key.value = Invalid \/ "str" \notin DOMAIN key.value
           \/ colon = <<>> \/ Head(colon) # ":"
        THEN Parsed(Invalid, <<>>)
        ELSE LET val == json_value(Tail(colon))
                 cs == SkipWs(val.rest)
             IN  IF val.value = Invalid \/ cs = <<>>
                 THEN Parsed(Invalid, <<>>)
                 ELSE IF Head(cs) = "}"
                 THEN Parsed(Dict(<< <<key.value, val.value>> >>), Tail(cs))
                 ELSE IF Head(cs) = ","
                 THEN LET more == json_members(Tail(cs))
                      IN  IF more.value = Invalid THEN more
                          ELSE Parsed(Dict(<< <<key.value, val.value>> >>
                                           \o more.value.dict), more.rest)
                 ELSE Parsed(Invalid, <<>>)

\* json.load(f): the one value of the document, nothing but white space
\* after it
json_load(text) ==
    LET doc == json_value(text)
    IN  IF doc.value # Invalid /\ SkipWs(doc.rest) = <<>> THEN doc.value
        ELSE Invalid

\* DataStorage.save_quotes: the file written and the value returned; when
\* the file cannot be opened for writing nothing is written and False is
\* returned (the empty sequence stands for no file)
save_quotes(records, writable) ==
    IF writable
    THEN [returned |-> TRUE, file |-> <<json_dump(records, 0)>>]
    ELSE [returned |-> FALSE, file |-> <<>>]

\* ------------------------------------------------------------- single calls
\* The functions of the program that compute a result from their arguments
\* alone, each called once on an argument drawn from a bounded set; and a
\* SeleniumParser built by a caller and used outside a run.
MaxBlocks == 2       \* most elements of class "quote" on a page explored

\* Elements of class "quote" a page can hold: a div as the site writes it
\* or another tag, with or without its text and author elements, the text
\* with or without quotation marks around it
QuoteElements ==
    {Element(e, t, a) : e \in {"div", "article"},
                        t \in {None, "q1", "\"q2\""},
                        a \in {None, "Ann"}}
RECURSIVE SeqsUpTo(_, _)
SeqsUpTo(S, n) ==
    IF n = 0 THEN {<<>>}
    ELSE SeqsUpTo(S, n - 1)
         \cup {Append(sq, x) : sq \in {q \in SeqsUpTo(S, n - 1) : Len(q) = n - 1},
                               x \in S}
Pagers == {Pager(None, 0)}
          \cup {Pager(e, c) : e \in {"ul", "nav"}, c \in {0, 2}}
Browsers == {"ok", "fails"}     \* whether _get_driver can create a browser

MaxRecords == 2      \* most records in a list handed to save_quotes
\* Texts with the characters json.dump has to escape or that delimit JSON
QuoteTexts == {<<>>, <<"q">>, <<"\"", "q", "\"">>, <<"\\", "n">>,
               <<"a", "\n", "b">>}
TagLists == {<<>>, << <<"t">> >>, << <<"a", ",">>, <<"]", " ">> >>}
SavedQuotes ==
    {Quote(t, <<"A", "n", "n">>, tags) : t \in QuoteTexts, tags \in TagLists}

ParserFns == {"parse_quotes_from_html", "has_next_page",
              "extract_page_number", "has_no_quotes"}
UnitFns == ParserFns \cup {"_extract_csrf_token",
                           "_check_authentication_success",
                           "save_quotes", "SeleniumParser"}

UnitArgs(fn) ==
    CASE fn = "parse_quotes_from_html" ->
            {[html |-> Document(bs, FALSE, FALSE, Pager(None, 0)),
              browser |-> b] :
                 bs \in SeqsUpTo(QuoteElements, MaxBlocks), b \in Browsers}
      [] fn = "has_next_page" ->
            {[html |-> Document(<<>>, n, FALSE, Pager(None, 0)),
              browser |-> b] : n \in BOOLEAN, b \in Browsers}
      [] fn = "extract_page_number" ->
            {[html |-> Document(<<>>, FALSE, FALSE, pg), browser |-> b] :
                 pg \in Pagers, b \in Browsers}
      [] fn = "has_no_quotes" ->
            {[html |-> Document(<<>>, FALSE, m, Pager(None, 0)),
              browser |-> b] : m \in BOOLEAN, b \in Browsers}
      [] fn = "_extract_csrf_token" ->
            {LoginPage(i, a, sc) : i \in {None, "t1"}, a \in {None, "t2"},
                                   sc \in {None, "t3"}}
            \cup {Unparsable(i, a, sc) : i \in {None, "t1"},
                                         a \in {None, "t2"},
                                         sc \in {None, "t3"}}
      [] fn = "_check_authentication_success" ->
            {PostBody(u, l, ph, lp, n, q) :
                 u \in BOOLEAN, l \in BOOLEAN, ph \in BOOLEAN,
                 lp \in BOOLEAN,
                 n \in {MinBodyLen - 1, MinBodyLen, MinBodyLen + 1},
                 q \in BOOLEAN}
      \* SeleniumParser(driver): without a driver, or with a browser of
      \* the caller
      [] fn = "SeleniumParser" -> {[driver |-> d] : d \in {"none", "alive"}}
      [] fn = "save_quotes" ->
            {[quotes |-> List(qs), writable |-> w] :
                 qs \in SeqsUpTo(SavedQuotes, MaxRecords), w \in BOOLEAN}

\* No run is in progress; one function and one argument are chosen
UnitInit ==
    /\ Start
    /\ mode = "full" /\ parser_type = "bs4" /\ max_pages = 0
    /\ retry_attempts = 1 /\ auth_retry_attempts = 1 /\ ~random_pages
    /\ unit_fn \in UnitFns
    /\ unit_arg \in UnitArgs(unit_fn)
    /\ unit_out = <<>>

\* The call of a parser operation on both backends
OnBoth(static, rendered) == [static |-> static, rendered |-> rendered]

call_parse_quotes_from_html ==
    /\ unit_fn = "parse_quotes_from_html" /\ unit_out = <<>>
    /\ unit_out' =
         <<OnBoth(Returned(parse_quotes_from_html(unit_arg.html)),
                  SeleniumParser_parse_quotes_from_html(unit_arg.html,
                                                        unit_arg.browser))>>
    /\ UNCHANGED <<progvars, unit_fn, unit_arg>>

call_has_next_page ==
    /\ unit_fn = "has_next_page" /\ unit_out = <<>>
    /\ unit_out' =
         <<OnBoth(Returned(has_next_page(unit_arg.html)),
                  SeleniumParser_has_next_page(unit_arg.html,
                                               unit_arg.browser))>>
    /\ UNCHANGED <<progvars, unit_fn, unit_arg>>

call_extract_page_number ==
    /\ unit_fn = "extract_page_number" /\ unit_out = <<>>
    /\ unit_out' =
         <<OnBoth(Returned(extract_page_number(unit_arg.html)),
                  SeleniumParser_extract_page_number(unit_arg.html,
                                                     unit_arg.browser))>>
    /\ UNCHANGED <<progvars, unit_fn, unit_arg>>

call_has_no_quotes ==
    /\ unit_fn = "has_no_quotes" /\ unit_out = <<>>
    /\ unit_out' =
         <<OnBoth(Returned(has_no_quotes(unit_arg.html)),
                  SeleniumParser_has_no_quotes(unit_arg.html))>>
    /\ UNCHANGED <<progvars, unit_fn, unit_arg>>

call_extract_csrf_token ==
    /\ unit_fn = "_extract_csrf_token" /\ unit_out = <<>>
    /\ unit_out' = <<_extract_csrf_token(unit_arg)>>
    /\ UNCHANGED <<progvars, unit_fn, unit_arg>>

call_check_authentication_success ==
    /\ unit_fn = "_check_authentication_success" /\ unit_out = <<>>
    /\ unit_out' = <<_check_authentication_success(unit_arg)>>
    /\ UNCHANGED <<progvars, unit_fn, unit_arg>>

\* save_quotes(quotes, filename), then the file read back with json.load
\* as test_storage does
call_save_quotes ==
    /\ unit_fn = "save_quotes" /\ unit_out = <<>>
    /\ LET r == save_quotes(unit_arg.quotes, unit_arg.writable)
       IN  unit_out' = <<[returned |-> r.returned,
                          loaded |-> IF r.file = <<>> THEN <<>>
                                     ELSE <<json_load(r.file[1])>>]>>
    /\ UNCHANGED <<progvars, unit_fn, unit_arg>>

\* What a parser used on its own leaves alone
parser_rest == <<cfgvars, runvars, authvars, attempt, netvars, worker,
                 crawlvars, histvars, ghostvars, tokvars, unitvars>>

\* SeleniumParser.__init__(driver)
SeleniumParser_init ==
    /\ unit_fn = "SeleniumParser" /\ parser = None
    /\ parser' = "selenium"
    /\ driver' = unit_arg.driver
    /\ own_driver' = (IF unit_arg.driver = "none" THEN "True" ELSE "False")
    /\ UNCHANGED <<drivers_created, drivers_quit, close_calls, parser_rest>>

\* One of the operations that call _get_driver (parse_quotes_from_url,
\* has_next_page_from_url, a parse of given HTML), one after the other
SeleniumParser_get_driver ==
    /\ unit_fn = "SeleniumParser" /\ parser = "selenium"
    /\ \E r \in BrowserResults(driver) : DriverAfter(r)
    /\ UNCHANGED <<close_calls, parser_rest>>

\* SeleniumParser.close(), up to MaxCloses times
SeleniumParser_close ==
    /\ unit_fn = "SeleniumParser" /\ parser = "selenium"
    /\ close_calls < MaxCloses
    /\ close_calls' = close_calls + 1
    /\ parser_close
    /\ UNCHANGED parser_rest

UnitNext ==
    \/ SeleniumParser_init
    \/ SeleniumParser_get_driver
    \/ SeleniumParser_close
    \/ call_save_quotes
    \/ call_parse_quotes_from_html
    \/ call_has_next_page
    \/ call_extract_page_number
    \/ call_has_no_quotes
    \/ call_extract_csrf_token
    \/ call_check_authentication_success

UnitSpec == UnitInit /\ [][UnitNext]_vars

\* ------------------------------------------------------------- properties
\* the lists of a list, joined in order
RECURSIVE Concat(_)
Concat(ss) == IF ss = <<>> THEN <<>> ELSE Head(ss) \o Concat(Tail(ss))

\* C1: with the static backend a call of _scrape_page_with_retry whose
\* every GET failed returns the empty list after exactly retry_attempts
\* GETs, and no call makes more than retry_attempts GETs.
C1_RetryBudget ==
    /\ fetch_gets <= retry_attempts
    /\ (pc = "fetched" /\ parser = "bs4" /\ fetch_failures = fetch_gets)
         => (fetch_gets = retry_attempts /\ quotes = <<>>)

C1_Witness ==
    /\ pc = "fetched" /\ parser = "bs4"
    /\ retry_attempts = 2 /\ fetch_gets = 2 /\ fetch_failures = 2
    /\ fetch_status = "timeout"

\* C2: a 404 ends the call of _scrape_page_with_retry at once: the call
\* has returned the empty list, the 404 was its last GET, no delay
\* followed it, and a 404 on the first attempt cost exactly one GET.
C2_NotFoundIsTerminal ==
    fetch_status = "404" =>
        /\ pc \notin {"fetch", "fetch_sleep"}
        /\ pc = "fetched" => quotes = <<>>
        /\ fetch_gets = fetch_failures + 1
        /\ fetch_delays = fetch_failures
        /\ fetch_failures = 0 => (fetch_gets = 1 /\ fetch_delays = 0)

C2_Witness ==
    /\ pc = "fetched" /\ fetch_status = "404"
    /\ retry_attempts = 2 /\ fetch_gets = 1

\* C3: with two login attempts, when the first login page holds no token,
\* the second holds one and the POST passes the success check, login
\* retries after the first page, posts once and returns success after
\* exactly 2 GETs and 1 POST.
C3_LoginRetry ==
    (auth_retry_attempts = 2 /\ ~cancelled) =>
        /\ login_log = <<"no_token">> =>
             /\ pc \in {"login_sleep", "login_get"}
             /\ login_result = None
             /\ login_gets = 1 /\ login_posts = 0
        /\ login_log = <<"no_token", "token">> =>
             /\ pc = "login_post"
             /\ login_gets = 2 /\ login_posts = 0
        /\ login_log = <<"no_token", "token", "success">> =>
             /\ pc = "login_done"
             /\ login_result = "True"
             /\ login_gets = 2 /\ login_posts = 1

C3_Witness ==
    /\ pc = "login_done" /\ auth_retry_attempts = 2
    /\ login_log = <<"no_token", "token", "success">>
    /\ login_result = "True" /\ login_gets = 2 /\ login_posts = 1

\* C4: every failure in login() consumes exactly one attempt, and login
\* returns False only after exactly retry_attempts attempts, all failed.
C4_LoginAttempts ==
    /\ pc = "login_get" =>
         (login_failures = attempt /\ login_gets = attempt)
    /\ pc = "login_post" =>
         (login_failures = attempt /\ login_gets = attempt + 1)
    /\ pc = "login_sleep" =>
         (login_failures = attempt + 1 /\ login_gets = attempt + 1)
    /\ pc \in {"login_get", "login_post", "login_sleep"} =>
         attempt < auth_retry_attempts
    /\ login_result = "False" =>
         /\ login_failures = auth_retry_attempts
         /\ login_gets = auth_retry_attempts
    /\ login_result = "True" => login_failures < auth_retry_attempts

C4_Witness ==
    /\ pc = "login_done" /\ login_result = "False"
    /\ auth_retry_attempts = 2
    /\ login_log = <<"token", "check_failed", "timeout">>

\* C5: in both run modes, once login has returned failure the run creates
\* no engine and no parser, sends no probe, page fetch or next-page check,
\* starts no browser and saves nothing.
C5_NoCrawlWithoutLogin ==
    login_result = "False" =>
        /\ pc \in {"login_done", "aexit", "done"}
        /\ parser = None
        /\ ~probed /\ ~fetched /\ ~next_checked /\ ~saved
        /\ drivers_created = 0
        /\ visited = <<>> /\ all_quotes = <<>> /\ author_quotes = <<>>

C5_Witness ==
    /\ pc = "done" /\ login_result = "False" /\ mode = "author"
    /\ session = "closed"

\* C6: the session created on entering the Authenticator context is
\* closed exactly once on every exit path, is never left open when the
\* run has ended and is never used for a request after its close.
C6_SessionClosedOnce ==
    /\ session_closes <= 1
    /\ session = "closed" <=> session_closes = 1
    /\ session = "closed" => pc = "done"
    /\ pc = "done" => session # "open"
    /\ session = "none" => pc \in {"check_site", "enter", "done"}
    /\ ~used_closed

C6_Witness ==
    /\ pc = "done" /\ exc = "ValueError"
    /\ session = "closed" /\ session_closes = 1

\* C7: when every discovery probe is answered with a page, discovery
\* returns the pages 1..k-1 in ascending order, k being the first page
\* with the terminal marker; the terminal page is not included and no
\* page after it is probed.
AllProbesAnswered ==
    \A i \in DOMAIN probe_log : probe_log[i] \in {"200", "200_marker"}

C7_DiscoverUpToMarker ==
    AllProbesAnswered =>
        /\ pc = "discover" =>
             /\ \A i \in DOMAIN probe_log : probe_log[i] = "200"
             /\ pages = UpTo(Len(probe_log))
             /\ page_num = Len(probe_log) + 1
        /\ (pc = "plan_ready" /\ max_pages = 0) =>
             /\ Len(probe_log) >= 1
             /\ probe_log[Len(probe_log)] = "200_marker"
             /\ \A i \in 1..(Len(probe_log) - 1) : probe_log[i] = "200"
             /\ pages_to_scrape = UpTo(Len(probe_log) - 1)

C7_Witness ==
    /\ pc = "plan_ready"
    /\ probe_log = <<"200", "200", "200", "200_marker">>
    /\ pages_to_scrape = <<1, 2, 3>>

\* C8: a discovery probe that ends in a fetch error (transport error or
\* timeout) stops discovery: it is the last probe, and the result is the
\* pages found before it.
C8_ProbeErrorStopsDiscovery ==
    \A i \in DOMAIN probe_log :
        probe_log[i] \in {"timeout", "client_error"} =>
            /\ pc # "discover"
            /\ Len(probe_log) = i
            /\ pc = "plan_ready" => pages_to_scrape = UpTo(i - 1)

\* C9: discovery is finite also on a site where every probe fails (an
\* error, a timeout, or a status other than 200 and 404): once begun,
\* discovery returns, unless some probe was answered with 200 or 404.
C9_DiscoveryReturns ==
    (pc = "discover") ~> (pc # "discover" \/ probe_answered)

\* C10: scrape_random_pages calls the page fetch for the pages of the
\* plan, each once and in plan order, whatever the pages yield, and
\* returns the concatenation of the per-page lists in plan order.
C10_PlannedCrawl ==
    /\ (mode = "full" /\ pc \in {"crawl_loop", "fetch", "fetch_sleep",
                                  "fetched", "crawl_done"}) =>
         /\ Len(visited) <= Len(pages_to_scrape)
         /\ visited = SubSeq(pages_to_scrape, 1, Len(visited))
         /\ all_quotes = Concat(per_page)
    /\ pc = "crawl_done" =>
         /\ visited = pages_to_scrape
         /\ Len(per_page) = Len(pages_to_scrape)
         /\ all_quotes = Concat(per_page)

C10_Witness ==
    /\ pc = "crawl_done"
    /\ pages_to_scrape = <<1, 2, 3>>
    /\ per_page[1] = <<>> /\ per_page[2] # <<>> /\ per_page[3] = <<>>
    /\ all_quotes = per_page[2]

\* The positions inside the loop of scrape_author_quotes
AuthorPositions == {"author_loop", "fetch", "fetch_sleep", "fetched",
                    "author_next", "author_done"}

\* C11: with a fixed page count a planned crawl always comes to its end;
\* no page takes more than retry_attempts attempts, and when every page
\* fetch failed, scrape_random_pages has visited every planned page and
\* returns the empty list without an exception.
C11_AllFailedCrawlCompletes ==
    /\ [](/\ (mode = "full" /\ max_pages # 0) => fetch_gets <= retry_attempts
          /\ (mode = "full" /\ max_pages # 0 /\ pc = "crawl_done"
                /\ all_failed) =>
                 /\ all_quotes = <<>>
                 /\ exc = None
                 /\ Len(per_page) = max_pages
                 /\ visited = UpTo(max_pages))
    /\ ((mode = "full" /\ max_pages # 0 /\ pc = "plan_ready")
          ~> (pc = "crawl_done" \/ cancelled))

C11_Witness ==
    /\ mode = "full" /\ pc = "crawl_done" /\ parser = "bs4"
    /\ max_pages = 2 /\ retry_attempts = 2
    /\ all_failed /\ Len(per_page) = 2
    /\ fetch_gets = 2 /\ fetch_failures = 2
    /\ all_quotes = <<>> /\ exc = None

\* C12: the result of scrape_author_quotes is exactly the records of the
\* pages it scraped whose author equals the requested name without regard
\* to case, in page order and then in-page order, duplicates kept; it is
\* empty when none matches, and the search ends without an exception.
SameAuthor(q) == Lower(q.author) = Lower(author_name)

C12_AuthorFilterIsPure ==
    (mode = "author" /\ pc \in AuthorPositions) =>
        /\ author_quotes = SelectSeq(Concat(per_page), SameAuthor)
        /\ pc = "author_done" => exc = None

C12_Witness ==
    /\ mode = "author" /\ pc = "author_done" /\ author_name = "ANN"
    /\ Len(per_page) = 2 /\ per_page[1] = per_page[2]
    /\ Len(per_page[1]) = 2
    /\ Len(author_quotes) = 2
    /\ author_quotes[1] = author_quotes[2]
    /\ author_quotes[1].author = "ann"

\* C13: when the fetch of page p of the author search has failed on every
\* attempt and p is below the page ceiling, the search does not end at
\* page p.
C13_AdvancesAfterFailedPage ==
    (/\ mode = "author" /\ pc = "author_done"
     /\ page_num >= 1 /\ Len(visited) = page_num
     /\ fetch_gets = retry_attempts /\ fetch_failures = retry_attempts)
        => (max_pages # 0 /\ page_num >= max_pages)

\* C14: with a page ceiling max_pages = M the author search sends no
\* request for a page above M and runs at most M iterations: the pages
\* are 1, 2, ... in steps of one, whatever the site answers.
C14_PageCeiling ==
    (mode = "author" /\ max_pages # 0 /\ pc \in AuthorPositions) =>
        /\ iterations <= max_pages
        /\ visited = UpTo(Len(visited))
        /\ Len(visited) <= iterations
        /\ pc = "author_loop" => page_num = iterations + 1
        /\ (pc = "author_loop" /\ waiting) => page_num <= max_pages
        /\ pc \in {"fetch", "fetch_sleep", "fetched", "author_next"} =>
             (page_num = iterations /\ Len(visited) = iterations)
        /\ pc = "author_done" => page_num \in {iterations, iterations + 1}

C14_Witness ==
    /\ mode = "author" /\ pc = "author_done" /\ max_pages = 2
    /\ iterations = 2 /\ page_num = 3 /\ visited = <<1, 2>>

\* What C15 says of the page that ended the author search: the loop is
\* over, that page was not scraped, every page before it was, no page
\* after it was requested, and the result holds records of the pages
\* before it only.
StoppedAtTerminalPage ==
    /\ pc = "author_done"
    /\ iterations = terminal_page
    /\ page_num = terminal_page
    /\ visited = UpTo(terminal_page - 1)
    /\ Len(per_page) = terminal_page - 1
    /\ author_quotes = SelectSeq(Concat(per_page), SameAuthor)

\* C15 (amended): scrape_author_quotes stops at the first page whose probe
\* shows the terminal marker or, with the static backend, is answered
\* with 404.
C15_StopsAtTerminalProbe ==
    (terminal_page # 0 /\ (terminal_how = "200_marker" \/ parser = "bs4"))
        => StoppedAtTerminalPage

C15_Witness ==
    /\ pc = "author_done" /\ parser = "bs4"
    /\ terminal_page = 2 /\ terminal_how = "404"
    /\ visited = <<1>> /\ author_quotes # <<>>

\* C15 (as stated): scrape_author_quotes stops at the first page whose
\* probe shows the terminal marker or is answered with 404, whatever the
\* backend.
C15_StopsAtMarkerOr404 ==
    terminal_page # 0 => StoppedAtTerminalPage

\* C16: with the selenium backend a page whose navigation failed is
\* attempted again while attempts remain: the call returns after a failed
\* navigation only when that was attempt number retry_attempts.
C16_NavigationFailureRetried ==
    (parser = "selenium" /\ pc = "fetched" /\ fetch_status = "nav_error")
        => fetch_gets = retry_attempts

\* C17: over any number of close() calls every browser that was created
\* is quit exactly once: no browser is quit twice, the parser holds no
\* browser only when every created one was quit, after a completed
\* close() it holds none, and close() without a browser changes nothing.
C17_BrowserQuitOnce ==
    /\ drivers_quit <= drivers_created
    /\ driver = "none" => drivers_quit = drivers_created
    /\ driver = "alive" => drivers_created = drivers_quit + 1
    /\ (close_calls >= 1 /\ ~cancelled) => driver = "none"
    /\ (close_calls >= 1 /\ drivers_created = 0) =>
         (drivers_quit = 0 /\ exc \in {None, "CancelledError"})

C17_Witness ==
    /\ pc = "done" /\ close_calls = 2 /\ ~cancelled
    /\ drivers_created = 1 /\ drivers_quit = 1 /\ driver = "none"

\* C18: when the crawl was cancelled during a browser operation, no
\* browser is alive once the run and the thread of that operation have
\* ended, and the session is closed.
C18_NoBrowserLeftAfterCancel ==
    (/\ parser = "selenium"
     /\ cancel_at \in CrawlAwaits \cap RequestPositions
     /\ pc = "done" /\ worker = "idle")
        => (driver = "none" /\ drivers_quit = drivers_created
            /\ session = "closed")

\* C19: at most one request to the site is outstanding at any time: a
\* request is outstanding exactly while the run waits for it or, after a
\* cancellation, while the browser operation left in its thread goes on,
\* and then the run sends no further request.
C19_OneRequestInFlight ==
    /\ in_flight <= 1
    /\ in_flight = (IF waiting \/ worker # "idle" THEN 1 ELSE 0)
    /\ ~(waiting /\ worker # "idle")

C19_Witness ==
    /\ pc = "author_next" /\ waiting /\ in_flight = 1
    /\ probed /\ fetched /\ fetch_gets = 2

\* C20: with a page count N > 0 and random sampling disabled the plan is
\* 1, 2, ..., N; discovery is used exactly when no page count is
\* configured.
C20_FixedPlan ==
    mode = "full" =>
        /\ (pc = "plan_ready" /\ max_pages # 0 /\ ~random_pages) =>
             pages_to_scrape = UpTo(max_pages)
        /\ pc = "discover" => max_pages = 0
        /\ probed => max_pages = 0
        /\ (pc = "plan_ready" /\ max_pages = 0) =>
             (probed /\ Len(probe_log) >= 1)
        /\ (pc = "plan_ready" /\ max_pages # 0) => probe_log = <<>>

C20_Witness ==
    /\ mode = "full" /\ pc = "plan_ready" /\ ~random_pages
    /\ max_pages = 2 /\ pages_to_scrape = <<1, 2>> /\ ~probed

\* C21: with random sampling enabled and a page count N the plan is
\* 1, 2, ..., N in ascending order, whichever sample was drawn: N distinct
\* page numbers of 1..N, hence all of them.
C21_RandomPlanIsWholeRange ==
    (mode = "full" /\ pc = "plan_ready" /\ max_pages # 0 /\ random_pages) =>
        /\ Len(pages_to_scrape) = max_pages
        /\ \A i \in 1..max_pages : pages_to_scrape[i] = i

C21_Witness ==
    /\ mode = "full" /\ pc = "plan_ready" /\ random_pages
    /\ max_pages = MaxPages /\ Len(pages_to_scrape) = MaxPages
    /\ pages_to_scrape[MaxPages] = MaxPages /\ ~probed

\* C23: every request for page n, whether sent by the terminal probe, the
\* record fetch or the next-page check, goes to base_url + "/" for n = 1
\* and to base_url + "/page/n/" for n > 1.
C23_PageUrl ==
    (waiting /\ pc \in {"discover", "author_loop", "fetch", "author_next"}) =>
        /\ page_num >= 1
        /\ page_num = 1 => url = base_url \o "/"
        /\ page_num > 1 => url = base_url \o "/page/" \o ToString(page_num) \o "/"

C23_Witness ==
    /\ pc = "author_next" /\ waiting /\ page_num = 2
    /\ url = "http://quotes.toscrape.com/page/2/"
    /\ visited = <<1, 2>>

\* C22: the login-success check answers true exactly when the username,
\* logout text or the phrase "successfully logged in" is in the body, or
\* the body has no login-path marker and is longer than the minimum size
\* and holds content vocabulary.
C22_LoginSuccessCheck ==
    (unit_fn = "_check_authentication_success" /\ unit_out # <<>>) =>
        unit_out[1] = (\/ unit_arg.username
                       \/ unit_arg.logout
                       \/ unit_arg.phrase
                       \/ (/\ ~unit_arg.login_path
                           /\ unit_arg.len > MinBodyLen
                           /\ unit_arg.vocab))

\* C24: with a parser identifier that is none of bs4, beautifulsoup and
\* selenium (in any letter case) no parser and no browser is ever created,
\* the run never reaches a position of the crawl, so that no probe and no
\* page fetch is sent, and the run that got as far as the engine's
\* constructor ends with the error of the factory.
C24_UnknownParserFailsEarly ==
    Lower(parser_type) \notin {"bs4", "beautifulsoup", "selenium"} =>
        /\ parser = None
        /\ driver = "none" /\ drivers_created = 0 /\ worker = "idle"
        /\ pc \in {"check_site", "enter", "login_get", "login_post",
                   "login_sleep", "login_done", "aexit", "done"}
        /\ ~probed /\ ~fetched /\ ~next_checked
        /\ (pc \in {"aexit", "done"} /\ login_result = "True" /\ ~cancelled)
              => exc = "ValueError"

C24_Witness ==
    /\ parser_type = " bs4 " /\ pc = "done" /\ exc = "ValueError"
    /\ login_result = "True" /\ session = "closed" /\ parser = None

\* a div of class "quote" that holds both a text and an author element
CompleteBlock(b) == b.elem = "div" /\ b.text # None /\ b.author # None

\* C25: parse_quotes_from_html of the static backend returns, without
\* raising, one record for every content block of the page that has a
\* text and an author element, in the order of the page: blocks missing
\* either are left out and the others kept, no block gives the empty list.
C25_StaticExtractRecords ==
    (unit_fn = "parse_quotes_from_html" /\ unit_out # <<>>) =>
        LET blocks == SelectSeq(unit_arg.html.blocks, CompleteBlock)
            result == unit_out[1].static
        IN  /\ ~result.raised
            /\ Len(result.value[1]) = Len(blocks)
            /\ \A i \in 1..Len(blocks) :
                 /\ result.value[1][i].author = blocks[i].author
                 /\ result.value[1][i].text = StripQuotes(blocks[i].text)
            /\ unit_arg.html.blocks = <<>> => result.value[1] = <<>>

C25_Witness ==
    /\ unit_fn = "parse_quotes_from_html"
    /\ unit_arg.html.blocks = <<Element("div", "q1", None),
                                Element("div", "\"q2\"", "Ann")>>
    /\ unit_out # <<>>
    /\ unit_out[1].static = Returned(<<[text |-> "q2", author |-> "Ann"]>>)

\* C26: called on the same page content, the static and the rendered
\* backend give the same result in each of the four operations: the same
\* records, the same next-page answer, the same page number, the same
\* empty-page answer.
C26_BackendsAgree ==
    (unit_fn \in ParserFns /\ unit_out # <<>>) =>
        unit_out[1].static = unit_out[1].rendered

\* C27: with the rendered backend, a page on which no content element
\* appears within the wait (the page with the terminal marker, the page
\* of a 404 answer) ends the call of _scrape_page_with_retry at once with
\* the empty list: the attempt is not counted as failed, no delay and no
\* further attempt follow it, and nothing is raised.
C27_WaitTimeoutIsEmptyPage ==
    (parser = "selenium" /\ fetch_status \in {"200_marker", "404"}) =>
        /\ pc \notin {"fetch", "fetch_sleep"}
        /\ pc = "fetched" =>
             /\ quotes = <<>>
             /\ fetch_failures = fetch_gets - 1
             /\ fetch_delays = fetch_failures
             /\ exc = None

C27_Witness ==
    /\ parser = "selenium" /\ pc = "fetched" /\ fetch_status = "200_marker"
    /\ quotes = <<>> /\ fetch_gets = 1 /\ retry_attempts = 2
    /\ driver = "alive"

\* C28: login() and scrape_author_quotes() are left only by their return
\* (or by a cancellation of the run), never by an exception of a request,
\* a timeout or the parsing: login() returns True after a passed check and
\* False after a failure of whatever kind, scrape_author_quotes() returns
\* the matches it has collected, and the only exceptions of a run are the
\* ValueError of the parser factory and the cancellation.
C28_FailuresAreReturned ==
    /\ [](exc \in {None, "ValueError", "CancelledError"})
    /\ [](pc = "login_done" =>
            /\ exc = None
            /\ login_log # <<>>
            /\ login_result = (IF login_log[Len(login_log)] = "success"
                               THEN "True" ELSE "False"))
    /\ [](pc = "author_done" =>
            /\ exc = None
            /\ Len(author_quotes) <= Len(Concat(per_page))
            /\ \A i \in 1..Len(author_quotes) : SameAuthor(author_quotes[i]))
    /\ [][(pc \in {"login_get", "login_post", "login_sleep"}
           /\ pc' \notin {"login_get", "login_post", "login_sleep"})
             => (pc' = "login_done" \/ cancelled')]_vars
    /\ [][(mode = "author" /\ pc \in AuthorPositions
           /\ pc' \notin AuthorPositions)
             => (pc = "author_done" \/ cancelled')]_vars

C28_Witness ==
    /\ pc = "login_done" /\ login_result = "False" /\ exc = None
    /\ Len(login_log) = 3
    /\ login_log[1] = "timeout" /\ login_log[3] = "error"

\* the entries of a log that equal x
Count(log, x) == Len(SelectSeq(log, LAMBDA e : e = x))

\* C29: a credential POST is sent only in an attempt whose GET returned
\* a login page from which a token was extracted, and it carries that
\* token: there are never more POSTs than such GETs, and after a GET with
\* a non-200 status or without a token the attempt is over.
C29_PostCarriesPageToken ==
    /\ pc = "login_post" =>
         /\ page_token # None
         /\ csrf_token = page_token
         /\ login_log # <<>> /\ login_log[Len(login_log)] = "token"
    /\ (pc = "login_post" /\ waiting) => post_token = page_token
    /\ post_token # None => (pc = "login_post" /\ waiting)
    /\ login_posts + (IF pc = "login_post" /\ waiting THEN 1 ELSE 0)
          <= Count(login_log, "token")
    /\ (/\ login_log # <<>>
        /\ login_log[Len(login_log)] \in {"get_status", "no_token"})
          => pc \in {"login_sleep", "login_get", "login_done", "aexit",
                     "done"}

C29_Witness ==
    /\ pc = "login_post" /\ waiting /\ attempt = 1
    /\ login_log = <<"token", "check_failed", "token">>
    /\ page_token = "t2" /\ post_token = "t2" /\ login_posts = 1

\* C30: _extract_csrf_token returns the result of the first lookup that
\* finds a token, in the order input field, attribute pattern, script
\* pattern, and no token when none finds one or the extraction raises.
C30_TokenLookupOrder ==
    (unit_fn = "_extract_csrf_token" /\ unit_out # <<>>) =>
        LET found == SelectSeq(<<unit_arg.input, unit_arg.attr,
                                 unit_arg.script>>, LAMBDA t : t # None)
        IN  unit_out[1] = (IF ~unit_arg.parses \/ found = <<>> THEN None
                           ELSE Head(found))

C30_Witness ==
    /\ unit_fn = "_extract_csrf_token"
    /\ unit_arg = LoginPage(None, "t2", "t3")
    /\ unit_out = <<"t2">>

\* C31: saving a list of records and loading the written file back gives
\* a list equal to the one saved (same records in the same order, each
\* with the same text, author and tags), and save_quotes returned True
C31_SaveLoadRoundTrip ==
    (unit_fn = "save_quotes" /\ unit_out # <<>> /\ unit_arg.writable)
        => /\ unit_out[1].returned
           /\ unit_out[1].loaded = <<unit_arg.quotes>>
\* two records were saved and read back, the first with an escaped text
C31_Witness ==
    /\ unit_fn = "save_quotes" /\ unit_out # <<>> /\ unit_arg.writable
    /\ Len(unit_arg.quotes.list) = 2
    /\ unit_arg.quotes.list[1].dict[1][2].str = <<"\\", "n">>
    /\ unit_arg.quotes.list[2].dict[3][2].list # <<>>
    /\ unit_out[1].returned
    /\ unit_out[1].loaded # <<>>

\* C32: in login() and in the static _scrape_page_with_retry the delay is
\* taken only between two attempts: a delay is started only while another
\* attempt is left, an attempt about to be made has as many delays behind
\* it as attempts, and a call that has made k attempts and is not about
\* to make another has taken exactly k - 1 delays, so no delay follows a
\* success or the last failure.
C32_DelaysOnlyBetweenAttempts ==
    /\ pc = "login_sleep" => attempt + 1 < auth_retry_attempts
    /\ pc = "login_get" => login_delays = login_gets
    /\ pc \in {"login_post", "login_sleep"} => login_delays = login_gets - 1
    /\ pc = "login_done" => login_delays = login_gets - 1
    /\ parser = "bs4" =>
         /\ pc = "fetch_sleep" => attempt + 1 < retry_attempts
         /\ pc = "fetch" => fetch_delays = fetch_gets
         /\ pc \in {"fetch_sleep", "fetched"} => fetch_delays = fetch_gets - 1
\* a page fetch has ended with its second failure, one delay taken
C32_Witness ==
    /\ parser = "bs4" /\ pc = "fetched" /\ retry_attempts = 2
    /\ fetch_gets = 2 /\ fetch_failures = 2 /\ fetch_delays = 1

\* The positions of _scrape_page_with_retry right after an attempt: about
\* to sleep, or returned
FetchPositions == {"fetch_sleep", "fetched"}

\* C33: a static page fetch whose GET is answered with status 200 and a
\* body that can be read ends with that GET: it was attempt k of the call,
\* the k - 1 attempts before it failed, no further attempt or delay is
\* made, and the call returns the records parsed from that body, also when
\* there are none.  A 200 whose body cannot be read is a failed attempt.
C33_FirstPageEndsFetch ==
    (parser = "bs4" /\ pc \in FetchPositions) =>
        /\ fetch_status \in {"200", "200_marker"} =>
             /\ pc = "fetched"
             /\ fetch_html # <<>>
             /\ quotes = parse_quotes_from_html(fetch_html[1])
             /\ fetch_gets = attempt + 1
             /\ fetch_failures = attempt
        /\ fetch_status = "payload_error" =>
             /\ fetch_failures = fetch_gets
             /\ pc = (IF fetch_gets < retry_attempts THEN "fetch_sleep"
                      ELSE "fetched")
             /\ pc = "fetched" => quotes = <<>>
\* the second attempt got a page without any quote block: the call has
\* returned the empty list after two attempts
C33_Witness ==
    /\ parser = "bs4" /\ pc = "fetched" /\ retry_attempts = 2
    /\ fetch_status = "200" /\ fetch_html = <<Page(<<>>, TRUE, FALSE)>>
    /\ fetch_gets = 2 /\ fetch_failures = 1 /\ quotes = <<>>
\* C33 as stated: a static page fetch whose GET receives status 200 ends
\* with that GET, whether or not the body could be read
C33_Status200EndsFetch ==
    (parser = "bs4" /\ pc \in FetchPositions
       /\ fetch_status \in {"200", "200_marker", "payload_error"})
        => pc = "fetched"

\* C34: login() returns True only at the answer to a credential POST sent
\* in the same attempt, an answer with status 200 or 302 whose body passed
\* the success check; and once it has returned True it sends no further
\* GET or POST and takes no delay.
C34_SuccessOnlyAfterAcceptedPost ==
    /\ []((pc = "login_done" /\ login_result = "True") =>
             /\ login_posts >= 1
             /\ login_log[Len(login_log)] = "success"
             /\ login_log[Len(login_log) - 1] = "token"
             /\ login_response # <<>>
             /\ login_response[1].status \in {200, 302}
             /\ login_response[1].passed)
    /\ [][(login_result # "True" /\ login_result' = "True") =>
             /\ pc = "login_post" /\ post_token # None
             /\ login_posts' = login_posts + 1
             /\ login_gets' = login_gets /\ login_delays' = login_delays]_vars
    /\ [][login_result = "True" =>
             /\ pc' \notin {"login_get", "login_post", "login_sleep"}
             /\ login_gets' <= login_gets
             /\ login_posts' <= login_posts
             /\ login_delays' <= login_delays]_vars
\* login() has returned True on the answer 302 to the POST of its second
\* attempt
C34_Witness ==
    /\ pc = "login_done" /\ login_result = "True"
    /\ login_response = <<[status |-> 302, passed |-> TRUE]>>
    /\ login_gets = 2 /\ login_posts = 1 /\ login_delays = 1

\* C35: with the static backend scrape_author_quotes sends for each page
\* it visits at most retry_attempts + 2 GETs, all to that page's URL: one
\* probe, the attempts of the page's call (at most retry_attempts), one
\* next-page check; and it sends a request only when no earlier request is
\* still under way, for the page it is at, never going back to a page.
C35_RequestsPerPage ==
    /\ []((mode = "author" /\ parser = "bs4") =>
            /\ page_gets <= retry_attempts + 2
            /\ pc = "author_loop" => page_gets = (IF waiting THEN 1 ELSE 0)
            /\ pc \in {"fetch", "fetch_sleep", "fetched"} =>
                 /\ fetch_gets <= retry_attempts
                 /\ page_gets = 1 + fetch_gets + (IF waiting THEN 1 ELSE 0)
            /\ pc = "author_next" =>
                 page_gets = 1 + fetch_gets + (IF waiting THEN 1 ELSE 0)
            /\ waiting => url = _scrape_page_with_retry_url(page_num))
    /\ [][(mode = "author" /\ parser = "bs4") =>
            /\ (~waiting /\ waiting') => in_flight = 0
            /\ page_num' # page_num =>
                 /\ in_flight' = 0
                 /\ page_num' = page_num + 1 \/ page_num' \in {0, 1}]_vars
\* page 2 has had its probe, two attempts and its next-page check, after
\* page 1 was left
C35_Witness ==
    /\ mode = "author" /\ parser = "bs4" /\ retry_attempts = 2
    /\ pc = "author_done" /\ page_num = 2
    /\ page_gets = 4 /\ fetch_gets = 2

\* C36: with the rendered backend the engine sends nothing through the
\* session, whatever its probes, page fetches and next-page checks end
\* in; and a probe or next-page check in which the browser
\* fails is answered with false (the probed page counts as a page with
\* quotes, the checked page as the last one) without a request through
\* the session.
C36_RenderedBackendUsesBrowserOnly ==
    /\ [](parser = "selenium" => ~session_used)
    /\ [][(parser = "selenium" /\ waiting /\ ~waiting' /\ ~cancelled') =>
            /\ session_used' = session_used
            /\ (pc = "author_loop" /\ driver' = "none") => pc' = "fetch"
            /\ (pc = "author_next" /\ driver' = "none") => pc' = "author_done"
            /\ (/\ pc = "discover"
                /\ Len(probe_log') > Len(probe_log)
                /\ probe_log'[Len(probe_log')] \in {"nav_error", "driver_error"})
                 => (pc' = "discover" /\ pages' = Append(pages, page_num))]_vars
\* the browser could not be created for the probe of page 1: the probe
\* was answered with false and the page's call follows, nothing was sent
\* through the session
C36_Witness ==
    /\ parser = "selenium" /\ mode = "author"
    /\ pc = "fetch" /\ page_num = 1 /\ probed /\ ~fetched
    /\ driver = "none" /\ drivers_created = 0
    /\ ~session_used

\* C37: the engine only borrows the session.  From its construction until
\* the Authenticator context is left the session is open, through every
\* crawl operation and through AsyncScraper.close(); the session changes
\* only on entering the context (created) and on leaving it (closed), and
\* when it is closed after an engine was built, the engine's close() has
\* been called before.
C37_EngineBorrowsSession ==
    /\ []((parser # None /\ pc # "done") => session = "open")
    /\ []((parser # None /\ session = "closed") => close_calls >= 1)
    /\ [][session' # session =>
            \/ pc = "enter" /\ session = "none" /\ session' = "open"
            \/ /\ pc = "aexit" /\ session = "open" /\ session' = "closed"
               /\ parser # None => close_calls >= 1]_vars
\* the context was left after a crawl with the rendered backend: close()
\* ran once, then the session was closed
C37_Witness ==
    /\ pc = "done" /\ parser = "selenium" /\ fetched /\ ~cancelled
    /\ close_calls = 1 /\ session = "closed" /\ session_closes = 1

\* C38: every run starts with the availability check, made on a session of
\* its own: as long as the check has not ended with status 200 the
\* Authenticator session does not exist, and when the check ends in
\* another status, a timeout or an error the run is over with no session
\* created, no login attempt, no engine, no request of a crawl and
\* nothing saved.
C38_UnavailableSiteEndsRun ==
    /\ site_check # "200" =>
         /\ session = "none" /\ session_closes = 0
         /\ login_result = None /\ login_gets = 0 /\ login_posts = 0
         /\ login_log = <<>>
         /\ parser = None /\ drivers_created = 0
         /\ ~probed /\ ~fetched /\ ~next_checked /\ ~saved
         /\ ~session_used
    /\ site_check \notin {None, "200"} => pc = "done"
    /\ (site_check = None /\ ~cancelled) => pc = "check_site"
\* the check was answered with status 500 and the run has ended
C38_Witness ==
    /\ site_check = "status" /\ pc = "done" /\ exc = None
    /\ session = "none" /\ login_result = None /\ ~saved

\* C39: the browser of the rendered backend is created lazily and is
\* unique.  Constructing the parser creates no browser; a browser is
\* created only by an operation that finds the parser without one, one at
\* a time; of the browsers a parser has created at most one is alive, the
\* one it holds; and a parser that was given its browser by the caller
\* creates none and never quits the one it was given, however often
\* close() is called.
C39_LazyUniqueBrowser ==
    /\ [](own_driver = "True" =>
            drivers_created - drivers_quit = (IF driver = "alive" THEN 1 ELSE 0))
    /\ [](own_driver = "False" =>
            (driver = "alive" /\ drivers_created = 0 /\ drivers_quit = 0))
    /\ [][(parser = None /\ parser' = "selenium") =>
            /\ drivers_created' = 0 /\ drivers_quit' = 0
            /\ (driver' = "alive") <=> (own_driver' = "False")]_vars
    /\ [][drivers_created' # drivers_created =>
            /\ parser = "selenium" /\ driver = "none" /\ own_driver = "True"
            /\ driver' = "alive"
            /\ drivers_created' = drivers_created + 1]_vars
\* a parser built around a browser of the caller was closed twice and
\* used: the browser is alive and was not quit
C39_Witness ==
    /\ unit_fn = "SeleniumParser" /\ own_driver = "False"
    /\ close_calls = 2 /\ driver = "alive" /\ drivers_quit = 0

====
